---- MODULE Spec2Model ----
(***************************************************************************)
(* Face-liveness verification front end.                                   *)
(*                                                                         *)
(* Three parts of the program are modelled, each with its own              *)
(* specification over the same variables:                                  *)
(*   SpecMatch   - the pure functions findBestMatch and                    *)
(*                 createIdentificationReport applied to arbitrary         *)
(*                 well-typed FaceComparisonResult lists;                  *)
(*   SpecCompare - one FaceIdentification component: performFaceComparison *)
(*                 with loadReferenceImages, the sequential remote calls   *)
(*                 of compareLivenessFaceWithReferences and the report;    *)
(*   SpecRetry   - the LivenessQuickStartReact component: session          *)
(*                 creation, handleError's bounded retry, retryLiveness.   *)
(*   SpecGeom    - the pure geometry functions of faceDetectionUtils      *)
(*                 (getFaceQualityScore, isFaceCentered,                   *)
(*                 compareFaceBoundingBoxes) applied to bounding boxes;    *)
(*   SpecAnalyze - analyzeFaceDetectionResults applied to a subject image  *)
(*                 or none and a list of audit images.                     *)
(*                                                                         *)
(* Conventions.  A JavaScript value that may be undefined/null is a        *)
(* sequence of length at most one: None is <<>>, Some(v) is <<v>>.  A      *)
(* reference to an element of a list is the element's position (1-based),  *)
(* 0 standing for null.  A function that may throw returns a record with   *)
(* a threw flag.  Similarity and Confidence are whole percentages; the     *)
(* numbers of the geometry functions are IEEE 754 binary64 values.         *)
(***************************************************************************)
EXTENDS Integers, Sequences, FiniteSets, TLC

VARIABLES
    \* ---- pure-function harness (SpecMatch)
    outcomes,            \* argument comparisonResults
    minimumSimilarity,   \* argument minimumSimilarity
    mstep,               \* "ready" | "best" | "report"
    bestIdx,             \* result of findBestMatch: position, 0 = null
    reportOut,           \* result of createIdentificationReport
    \* ---- FaceIdentification component (SpecCompare)
    livenessResult,      \* prop livenessResult
    referenceImages,     \* useState referenceImages
    isComparing,         \* useState isComparing
    comparisonResults,   \* useState comparisonResults
    similarityThreshold, \* useState similarityThreshold
    cpc,                 \* position of the performFaceComparison run; "unmounted"
                         \* once a render of the component has thrown
    refImageData,        \* loadReferenceImages: referenceImages accumulated
    results,             \* compareLivenessFaceWithReferences: results accumulated
    idx,                 \* position of the current loop in its input list
    inFlight,            \* positions of refImageData whose remote call is pending
    callLog,             \* positions of refImageData in the order calls were started
    settled,             \* the calls that have settled, in the order they settled
    reportCalls,         \* reports handed to onIdentificationComplete in this run
    lastReport,          \* result of the run's createIdentificationReport
    alerts,              \* alert() calls of the current click
    fileLog,             \* loadReferenceImages: whether each read so far succeeded
    referenceImageFiles, \* loadReferenceImages: its argument, the list at the click
    \* ---- LivenessQuickStartReact component (SpecRetry)
    loading,             \* useState loading
    error,               \* useState error (None = null)
    sessionId,           \* createLivenessApiData?.sessionId (0 = none)
    livenessResults,     \* useState livenessResults (None = null)
    identificationReport,\* useState identificationReport is non-null
    showIdentification,  \* useState showIdentification
    isHandlingError,     \* useRef isHandlingError
    comparing,           \* the FaceIdentification shown has a run in flight
    orphanRuns,          \* runs in flight whose FaceIdentification was unmounted
    cameraTests,         \* getUserMedia calls of Test Camera that are pending
    retryCount,          \* useRef retryCount
    mountPc,             \* position of the mount effect; "unmounted" once a
                         \* render has thrown and React has removed the tree
    hWaiting,            \* handleError invocations waiting on the 1 s timer
    fetches,             \* fetchCreateLiveness calls in flight, by caller
    analysisPending,     \* handleAnalysisComplete is waiting for the results
    detectorSeen,        \* a FaceLivenessDetector has been rendered
    sessionsMade,        \* sessions the service has created so far
    errorsSeen,          \* error events delivered so far
    resetsSeen,          \* retryLiveness invocations so far
    autoSinceReset,      \* error events since the last reset that began a retry
    lastEvent,           \* the last step: "fetchOk", "fetchFailed", "errorTerminal",
                         \* "reset", or "other" for every other step
    \* ---- geometry functions (SpecGeom)
    box1,                \* argument boundingBox / box1
    box2,                \* argument box2 of compareFaceBoundingBoxes
    gcall,               \* "ready", or the function that was called
    qualityOut,          \* result of getFaceQualityScore
    centeredOut,         \* result of isFaceCentered with the default tolerance
    compareOut,          \* result of compareFaceBoundingBoxes
    imageSize,           \* <<imageWidth, imageHeight>> of normalizedToPixelCoords
    pixelOut,            \* outcome of normalizedToPixelCoords
    \* ---- analyzeFaceDetectionResults (SpecAnalyze)
    referenceImage,      \* argument referenceImage (None = null)
    auditImages,         \* argument auditImages
    acall,               \* "ready" | "analyzed"
    analysis             \* the analysis returned

matchVars == <<outcomes, minimumSimilarity, mstep, bestIdx, reportOut>>
compareVars == <<livenessResult, referenceImages, isComparing, comparisonResults,
                 similarityThreshold, cpc, refImageData, results, idx, inFlight,
                 callLog, settled, reportCalls, lastReport, alerts, fileLog,
                 referenceImageFiles>>
retryVars == <<loading, error, sessionId, livenessResults, identificationReport,
               showIdentification, isHandlingError, comparing, orphanRuns, cameraTests,
               retryCount, mountPc, hWaiting,
               fetches, analysisPending, detectorSeen, sessionsMade, errorsSeen,
               resetsSeen, autoSinceReset, lastEvent>>
geomVars == <<box1, box2, gcall, qualityOut, centeredOut, compareOut, imageSize,
              pixelOut>>
analyzeVars == <<referenceImage, auditImages, acall, analysis>>
vars == <<matchVars, compareVars, retryVars, geomVars, analyzeVars>>

----------------------------------------------------------------------------
(* Bounds of the model *)

MaxOutcomes == 2
MaxMatches == 2
MaxRefs == 2
MaxErrors == 4
MaxResets == 1
MaxRuns == 1
MaxCameraTests == 1

(* Values the inputs are drawn from *)

SimilarityValues == {0, 75, 80, 90}
LaterSimilarityValues == {0, 90}
ThresholdValues == {0, 75, 80, 90}
ConfidenceValues == {99}

----------------------------------------------------------------------------
(* Optional values *)

None == <<>>
Some(v) == <<v>>

RECURSIVE SeqsUpTo(_, _)
SeqsUpTo(S, n) ==
    IF n = 0 THEN {<<>>}
    ELSE LET shorter == SeqsUpTo(S, n - 1)
         IN shorter \cup {Append(s, x) : s \in {t \in shorter : Len(t) = n - 1}, x \in S}

----------------------------------------------------------------------------
(* Types: FaceMatch, FaceComparisonResult *)

FaceMatch(sim, conf) == [Similarity |-> sim, Face |-> [Confidence |-> conf]]


\* interface FaceComparisonResult; unmatchedFaces and sourceImageFace are never
\* read by the program and are left out.  matches is optional because a result
\* spread from a service response carries whatever the response carried.
FaceComparisonResult(success, matches, err, personId, personName) ==
    [success |-> success, matches |-> matches, error |-> err,
     personId |-> personId, personName |-> personName]

\* Match lists of at most n candidates: any first candidate, later candidates
\* below or above every threshold (the list need not be sorted).
RECURSIVE MatchLists(_)
MatchLists(n) ==
    IF n = 0 THEN {<<>>}
    ELSE LET shorter == MatchLists(n - 1)
         IN shorter
            \cup {Append(l, FaceMatch(s, c)) :
                    l \in {t \in shorter : Len(t) = n - 1 /\ n > 1},
                    s \in LaterSimilarityValues, c \in ConfidenceValues}
            \cup {<<FaceMatch(s, c)>> : s \in {v \in SimilarityValues : n = 1},
                                        c \in ConfidenceValues}

PersonIds == <<"1", "2", "3", "4">>
PersonNames == <<"Al", "Bo", "Cy", "Di">>

\* The well-typed results of one reference: success flag and match list.
OutcomeShapes == [success : BOOLEAN, matches : MatchLists(MaxMatches)]

OutcomeAt(shape, i) ==
    FaceComparisonResult(shape.success, Some(shape.matches),
                         IF shape.success THEN None ELSE Some("comparison failed"),
                         Some(PersonIds[i]), Some(PersonNames[i]))

----------------------------------------------------------------------------
(* findBestMatch *)

DefaultMinimumSimilarity == 80

\* A slip of line 454: the success flag is not looked at.
IsCandidate_IgnoreSuccess(result) ==
    Len(result.matches[1]) > 0

\* line 454: result.success && result.matches.length > 0
\* (reading .length of an undefined matches throws; see findBestMatchFrom)
IsCandidate(result) ==
    result.success /\ Len(result.matches[1]) > 0

\* A slip of line 455: the last candidate is taken instead of the first.
TopMatch_Last(result) == result.matches[1][Len(result.matches[1])]

\* line 455: const topMatch = result.matches[0]
TopMatch(result) == result.matches[1][1]

\* A slip of line 456: the threshold is not applied.
Improves_NoThreshold(topMatch, minSim, highestSimilarity) ==
    topMatch.Similarity > highestSimilarity

\* A slip of line 456: the first result at or above the threshold is kept.
Improves_FirstQualifying(topMatch, minSim, highestSimilarity) ==
    topMatch.Similarity >= minSim /\ highestSimilarity = 0

\* line 456: topMatch.Similarity >= minimumSimilarity &&
\*           topMatch.Similarity > highestSimilarity
Improves(topMatch, minSim, highestSimilarity) ==
    topMatch.Similarity >= minSim /\ topMatch.Similarity > highestSimilarity

\* The for loop of findBestMatch from position i on, with the loop's locals.
RECURSIVE findBestMatchFrom(_, _, _, _, _)
findBestMatchFrom(rs, minSim, i, bestMatch, highestSimilarity) ==
    IF i > Len(rs) THEN [threw |-> FALSE, bestMatch |-> bestMatch]
    ELSE LET result == rs[i] IN
         IF result.success /\ result.matches = None
         THEN [threw |-> TRUE, bestMatch |-> 0]
         ELSE IF IsCandidate(result)
                 /\ Improves(TopMatch(result), minSim, highestSimilarity)
              THEN findBestMatchFrom(rs, minSim, i + 1, i, TopMatch(result).Similarity)
              ELSE findBestMatchFrom(rs, minSim, i + 1, bestMatch, highestSimilarity)

\* findBestMatch(comparisonResults, minimumSimilarity): bestMatch = null,
\* highestSimilarity = 0, then the loop.
findBestMatch(rs, minSim) == findBestMatchFrom(rs, minSim, 1, 0, 0)

----------------------------------------------------------------------------
(* createIdentificationReport *)

\* `${x}` of an optional string
Text(opt) == IF opt = None THEN "undefined" ELSE opt[1]

\* Number.prototype.toFixed(2) of a whole number
toFixed2(n) == ToString(n) \o ".00"

\* result.matches[0]?.Similarity || 0   (matches defined)
TopSimilarityOrZero(result) ==
    IF Len(result.matches[1]) = 0 THEN 0 ELSE result.matches[1][1].Similarity

\* result.matches[0]?.Face.Confidence || 0   (matches defined)
TopConfidenceOrZero(result) ==
    IF Len(result.matches[1]) = 0 THEN 0 ELSE result.matches[1][1].Face.Confidence

\* A slip of line 545: every result is counted, failed ones included.
CountSuccess_All(rs) == Len(rs)

\* line 545: comparisonResults.filter(r => r.success).length
RECURSIVE CountSuccess(_)
CountSuccess(rs) ==
    IF rs = <<>> THEN 0
    ELSE (IF Head(rs).success THEN 1 ELSE 0) + CountSuccess(Tail(rs))

\* lines 552-558: one summary per result
ResultSummary(result) ==
    [personId |-> result.personId, personName |-> result.personName,
     success |-> result.success, similarity |-> TopSimilarityOrZero(result),
     error |-> result.error]

\* lines 546-551
BestMatchSummary(rs, b) ==
    IF b = 0 THEN None
    ELSE Some([personId |-> rs[b].personId, personName |-> rs[b].personName,
               similarity |-> TopSimilarityOrZero(rs[b]),
               confidence |-> TopConfidenceOrZero(rs[b])])

\* lines 560-562
Recommendation(rs, b) ==
    IF b = 0 THEN "No matching person found in reference database"
    ELSE "Identified as " \o Text(rs[b].personName) \o " with "
         \o toFixed2(rs[b].matches[1][1].Similarity) \o "% similarity"

\* A slip of line 563: any successful comparison counts as an identification.
IsIdentified_AnySuccess(rs, b) == CountSuccess(rs) > 0

\* line 563: isIdentified: !!bestMatch
IsIdentified(rs, b) == b # 0

\* createIdentificationReport(livenessResult, comparisonResults).  The
\* timestamp (the clock) is left out.  It throws a TypeError when findBestMatch
\* throws or when the allResults map reads matches[0] of a result without
\* matches.
createIdentificationReport(lr, rs) ==
    LET found == findBestMatch(rs, DefaultMinimumSimilarity) IN
    IF found.threw \/ \E i \in 1..Len(rs) : rs[i].matches = None
    THEN [threw |-> TRUE, report |-> None]
    ELSE LET b == found.bestMatch IN
         [threw |-> FALSE,
          report |-> Some(
            [livenessCheck |-> [passed |-> lr.isLive, confidence |-> lr.confidence,
                                sessionId |-> lr.sessionId, status |-> lr.status],
             faceComparison |->
               [totalComparisons |-> Len(rs),
                successfulComparisons |-> CountSuccess(rs),
                bestMatch |-> BestMatchSummary(rs, b),
                allResults |-> [i \in 1..Len(rs) |-> ResultSummary(rs[i])]],
             recommendation |-> Recommendation(rs, b),
             isIdentified |-> IsIdentified(rs, b)])]


----------------------------------------------------------------------------
(* compareFacesAPI and compareLivenessFaceWithReferences *)

\* What one POST to /api/compare-faces can come back with: the fetch rejects,
\* the status is not OK, the body is no JSON, or a JSON body.
FetchRejected == [kind |-> "rejected", status |-> 0, body |-> None]
HttpError(status) == [kind |-> "http", status |-> status, body |-> None]
BadJson == [kind |-> "badjson", status |-> 200, body |-> None]
JsonBody(body) == [kind |-> "json", status |-> 200, body |-> Some(body)]

\* JSON bodies of the comparison service: a match, no match, a failure with an
\* empty match list, a failure that carries no matches field, and a match
\* that carries a personId and personName of its own.
ServiceBodies ==
    { FaceComparisonResult(TRUE, Some(<<FaceMatch(90, 99)>>), None, None, None),
      FaceComparisonResult(TRUE, Some(<<>>), None, None, None),
      FaceComparisonResult(FALSE, Some(<<>>), Some("No face detected"), None, None),
      FaceComparisonResult(FALSE, None, Some("Invalid image"), None, None),
      FaceComparisonResult(TRUE, Some(<<FaceMatch(80, 99)>>), None, Some("svc"),
                           Some("Svc")) }

Responses ==
    {FetchRejected, HttpError(500), BadJson} \cup {JsonBody(b) : b \in ServiceBodies}

\* compareFacesAPI: the value it resolves with, or the message of the Error it
\* throws (lines 429-437: every failure is rethrown as 'Face comparison failed').
compareFacesAPI(response) ==
    IF response.kind = "json"
    THEN [threw |-> FALSE, value |-> response.body, message |-> ""]
    ELSE [threw |-> TRUE, value |-> None,
          message |-> "Face comparison failed: " \o
             (CASE response.kind = "rejected" -> "TypeError: Failed to fetch"
                [] response.kind = "http" ->
                     "Error: HTTP error! status: " \o ToString(response.status)
                [] OTHER -> "SyntaxError: Unexpected token < in JSON at position 0")]

\* lines 383-387: { ...comparisonResult, personId: refImage.id, personName: refImage.name }
SpreadResult(comparisonResult, refImage) ==
    [comparisonResult EXCEPT !.personId = Some(refImage.id),
                             !.personName = Some(refImage.name)]

\* A slip of lines 389-397: the reference's name is left out of the message.
FailureResult_NoName(refImage, message) ==
    FaceComparisonResult(FALSE, Some(<<>>),
                         Some("Failed to compare: Error: " \o message),
                         Some(refImage.id), Some(refImage.name))

\* lines 389-397: the result pushed by the catch; `${error}` of an Error is
\* 'Error: ' followed by its message.
FailureResult(refImage, message) ==
    FaceComparisonResult(FALSE, Some(<<>>),
                         Some("Failed to compare with " \o refImage.name \o ": Error: "
                              \o message),
                         Some(refImage.id), Some(refImage.name))

\* The result pushed for one reference once its call has settled (lines 376-398).
ResultFor(refImage, response) ==
    LET r == compareFacesAPI(response) IN
    IF r.threw THEN FailureResult(refImage, r.message)
    ELSE SpreadResult(r.value[1], refImage)

\* A slip of line 375-377: every call is started at once (no await in the loop).
CallsStartedOnEntry_All(n) == 1..n

\* line 375-377: on entry the loop starts the call of the first reference only.
CallsStartedOnEntry(n) == IF n > 0 THEN {1} ELSE {}

\* A slip of lines 388-398: a failed call ends the loop.
CallsStartedAfter_AbortOnFailure(c, n, threw) ==
    IF c < n /\ ~threw THEN {c + 1} ELSE {}

\* lines 375-399: when the call of reference c has settled, thrown or not, the
\* loop goes on to the next reference, if there is one.
CallsStartedAfter(c, n, threw) == IF c < n THEN {c + 1} ELSE {}

\* The positions of a set in increasing order.
RECURSIVE InOrder(_)
InOrder(S) ==
    IF S = {} THEN <<>>
    ELSE LET m == CHOOSE x \in S : \A y \in S : x <= y
         IN <<m>> \o InOrder(S \ {m})

----------------------------------------------------------------------------
(* Values of the parts a specification does not drive *)

\* The liveness result handed to the report: a live result with image bytes.
LiveResult(hasBytes) ==
    [isLive |-> TRUE, confidence |-> 97, sessionId |-> "s1", status |-> "SUCCEEDED",
     hasBytes |-> hasBytes]

\* No fetchCreateLiveness call in flight: none started by the mount effect, by
\* handleError or by retryLiveness.
NoFetches == [mount |-> 0, handleError |-> 0, retryLiveness |-> 0]

MatchIdle ==
    /\ outcomes = <<>>
    /\ minimumSimilarity = DefaultMinimumSimilarity
    /\ mstep = "off"
    /\ bestIdx = 0
    /\ reportOut = [threw |-> FALSE, report |-> None]

CompareIdle ==
    /\ livenessResult = LiveResult(TRUE)
    /\ referenceImages = <<>>
    /\ isComparing = FALSE
    /\ comparisonResults = <<>>
    /\ similarityThreshold = 80
    /\ cpc = "off"
    /\ refImageData = <<>>
    /\ results = <<>>
    /\ idx = 0
    /\ inFlight = {}
    /\ callLog = <<>>
    /\ settled = <<>>
    /\ reportCalls = 0
    /\ lastReport = [threw |-> FALSE, report |-> None]
    /\ alerts = 0
    /\ fileLog = <<>>
    /\ referenceImageFiles = <<>>

RetryIdle ==
    /\ loading = TRUE
    /\ error = None
    /\ sessionId = 0
    /\ livenessResults = None
    /\ identificationReport = FALSE
    /\ showIdentification = FALSE
    /\ isHandlingError = FALSE
    /\ comparing = FALSE
    /\ orphanRuns = 0
    /\ cameraTests = 0
    /\ retryCount = 0
    /\ mountPc = "off"
    /\ hWaiting = 0
    /\ fetches = NoFetches
    /\ analysisPending = FALSE
    /\ detectorSeen = FALSE
    /\ sessionsMade = 0
    /\ errorsSeen = 0
    /\ resetsSeen = 0
    /\ autoSinceReset = 0
    /\ lastEvent = "init"

GeomIdle ==
    /\ box1 = None
    /\ box2 = None
    /\ gcall = "off"
    /\ qualityOut = None
    /\ centeredOut = None
    /\ compareOut = None
    /\ imageSize = None
    /\ pixelOut = None

AnalyzeIdle ==
    /\ referenceImage = None
    /\ auditImages = <<>>
    /\ acall = "off"
    /\ analysis = None

----------------------------------------------------------------------------
(* SpecMatch: findBestMatch and createIdentificationReport on every list of  *)
(* at most MaxOutcomes well-typed results and every threshold                *)

InitMatch ==
    /\ \E shapes \in SeqsUpTo(OutcomeShapes, MaxOutcomes) :
         outcomes = [i \in 1..Len(shapes) |-> OutcomeAt(shapes[i], i)]
    /\ minimumSimilarity \in ThresholdValues
    /\ mstep = "ready"
    /\ bestIdx = 0
    /\ reportOut = [threw |-> FALSE, report |-> None]
    /\ CompareIdle
    /\ RetryIdle
    /\ GeomIdle
    /\ AnalyzeIdle

\* const bestMatch = findBestMatch(comparisonResults, minimumSimilarity)
CallFindBestMatch ==
    /\ mstep = "ready"
    /\ bestIdx' = findBestMatch(outcomes, minimumSimilarity).bestMatch
    /\ mstep' = "best"
    /\ UNCHANGED <<outcomes, minimumSimilarity, reportOut, compareVars, retryVars, geomVars,
                 analyzeVars>>

\* const report = createIdentificationReport(livenessResult, comparisonResults)
CallCreateIdentificationReport ==
    /\ mstep = "ready"
    /\ reportOut' = createIdentificationReport(livenessResult, outcomes)
    /\ mstep' = "report"
    /\ UNCHANGED <<outcomes, minimumSimilarity, bestIdx, compareVars, retryVars, geomVars,
                 analyzeVars>>

NextMatch == CallFindBestMatch \/ CallCreateIdentificationReport

SpecMatch == InitMatch /\ [][NextMatch]_vars

----------------------------------------------------------------------------
(* Claims about findBestMatch and the report (SpecMatch) *)

\* A result findBestMatch considers: successful with at least one candidate.
Considered(r) == r.success /\ r.matches # None /\ Len(r.matches[1]) > 0
FirstSimilarity(r) == r.matches[1][1].Similarity
\* A result that qualifies: considered, first candidate at or above the threshold.
Qualifies(r, minSim) == Considered(r) /\ FirstSimilarity(r) >= minSim
QualifyingSet(rs, minSim) == {i \in 1..Len(rs) : Qualifies(rs[i], minSim)}

\* C1: whenever findBestMatch returns an outcome r, r is an element of the list,
\* successful, with a non-empty match list, its first candidate is at or above
\* minimumSimilarity and at or above the first candidate of every other
\* successful non-empty outcome.
C1_BestIsQualifiedMaximum ==
    (mstep = "best" /\ bestIdx # 0) =>
        /\ bestIdx \in 1..Len(outcomes)
        /\ Considered(outcomes[bestIdx])
        /\ FirstSimilarity(outcomes[bestIdx]) >= minimumSimilarity
        /\ \A j \in 1..Len(outcomes) :
              Considered(outcomes[j]) =>
                  FirstSimilarity(outcomes[bestIdx]) >= FirstSimilarity(outcomes[j])

\* C1 witness: an outcome was returned although an earlier successful outcome
\* with a lower, non-zero first candidate was in the list.
C1_Witness ==
    /\ mstep = "best" /\ bestIdx = 2
    /\ Considered(outcomes[1])
    /\ FirstSimilarity(outcomes[1]) > 0
    /\ FirstSimilarity(outcomes[1]) < FirstSimilarity(outcomes[2])

\* C5: an outcome with success=false is never the best match, neither of
\* findBestMatch nor in the report, whatever its match list holds; the report
\* still counts it in totalComparisons and lists it in allResults.
C5_FailedNeverBest ==
    /\ (mstep = "best" /\ bestIdx # 0) => outcomes[bestIdx].success
    /\ mstep = "report" =>
         /\ ~reportOut.threw
         /\ LET fc == reportOut.report[1].faceComparison IN
            /\ fc.totalComparisons = Len(outcomes)
            /\ Len(fc.allResults) = Len(outcomes)
            /\ \A i \in 1..Len(outcomes) :
                 ~outcomes[i].success =>
                    /\ fc.allResults[i].personId = outcomes[i].personId
                    /\ fc.allResults[i].success = FALSE
                    /\ fc.bestMatch # None =>
                          fc.bestMatch[1].personId # outcomes[i].personId

\* C5 witness: a report over a list holding a failed outcome whose first
\* candidate is above the report's threshold and above the best match's.
C5_Witness ==
    /\ mstep = "report"
    /\ ~reportOut.threw
    /\ reportOut.report[1].faceComparison.bestMatch # None
    /\ \E i \in 1..Len(outcomes) :
         /\ ~outcomes[i].success
         /\ Len(outcomes[i].matches[1]) > 0
         /\ FirstSimilarity(outcomes[i]) >
               reportOut.report[1].faceComparison.bestMatch[1].similarity

\* C8 (as claimed): when several qualifying outcomes share the highest
\* first-candidate similarity, findBestMatch returns the earliest of them.
C8_TieKeepsEarliest ==
    mstep = "best" =>
        LET Q == QualifyingSet(outcomes, minimumSimilarity)
            top == {i \in Q : \A j \in Q :
                       FirstSimilarity(outcomes[i]) >= FirstSimilarity(outcomes[j])}
        IN Cardinality(top) >= 2 => (bestIdx \in top /\ \A i \in top : bestIdx <= i)

\* C9 (as claimed): findBestMatch returns null exactly when no successful
\* outcome has a first candidate at or above minimumSimilarity.
C9_NullIffNoneQualifies ==
    mstep = "best" =>
        (bestIdx = 0 <=> QualifyingSet(outcomes, minimumSimilarity) = {})

\* The same list with every match list cut down to its first candidate.
FirstCandidatesOnly(rs) ==
    [i \in 1..Len(rs) |->
        [rs[i] EXCEPT !.matches =
            IF @ = None \/ Len(@[1]) = 0 THEN @ ELSE Some(<<@[1][1]>>)]]

\* C10: findBestMatch looks only at the first candidate of each outcome: an
\* outcome whose first candidate is below minimumSimilarity is not selected
\* even when a later candidate is at or above it, and the result is the one
\* findBestMatch gives when every match list is cut to its first candidate.
C10_OnlyFirstCandidate ==
    mstep = "best" =>
        /\ \A i \in 1..Len(outcomes) :
             (Considered(outcomes[i]) /\ FirstSimilarity(outcomes[i]) < minimumSimilarity)
                 => bestIdx # i
        /\ bestIdx = findBestMatchFrom(FirstCandidatesOnly(outcomes),
                                       minimumSimilarity, 1, 0, 0).bestMatch

\* C10 witness: a successful outcome with a first candidate below the threshold
\* and a later candidate at or above it was passed over for another outcome.
C10_Witness ==
    /\ mstep = "best" /\ bestIdx # 0
    /\ \E i \in 1..Len(outcomes) :
         /\ i # bestIdx
         /\ outcomes[i].success
         /\ Len(outcomes[i].matches[1]) >= 2
         /\ FirstSimilarity(outcomes[i]) < minimumSimilarity
         /\ outcomes[i].matches[1][2].Similarity >= minimumSimilarity
         /\ outcomes[i].matches[1][2].Similarity > FirstSimilarity(outcomes[bestIdx])

\* The report of a createIdentificationReport call that returned.
ReportBuilt == mstep = "report" /\ ~reportOut.threw /\ reportOut.report # None
TheReport == reportOut.report[1]

\* C11: in every report built by createIdentificationReport, totalComparisons
\* is the number of outcomes, successfulComparisons is the number of outcomes
\* with success = true and lies between 0 and totalComparisons, and allResults
\* holds one summary per outcome, in input order, whose similarity is the
\* outcome's first-candidate similarity, or 0 when it has no candidate.
C11_ReportCounts ==
    ReportBuilt =>
      LET fc == TheReport.faceComparison IN
      /\ fc.totalComparisons = Len(outcomes)
      /\ fc.successfulComparisons =
            Cardinality({i \in 1..Len(outcomes) : outcomes[i].success})
      /\ 0 <= fc.successfulComparisons
      /\ fc.successfulComparisons <= fc.totalComparisons
      /\ DOMAIN fc.allResults = 1..Len(outcomes)
      /\ \A i \in 1..Len(outcomes) :
            /\ fc.allResults[i].personId = outcomes[i].personId
            /\ fc.allResults[i].personName = outcomes[i].personName
            /\ fc.allResults[i].success = outcomes[i].success
            /\ fc.allResults[i].similarity =
                  (IF outcomes[i].matches[1] = <<>> THEN 0
                   ELSE FirstSimilarity(outcomes[i]))

\* A report over a failed outcome that carries a candidate and a successful
\* outcome without candidates: the counts differ and both similarity cases occur.
C11_Witness ==
    /\ ReportBuilt
    /\ Len(outcomes) = 2
    /\ ~outcomes[1].success /\ outcomes[1].matches[1] # <<>>
    /\ FirstSimilarity(outcomes[1]) = 90
    /\ outcomes[2].success /\ outcomes[2].matches[1] = <<>>
    /\ TheReport.faceComparison.successfulComparisons = 1
    /\ TheReport.faceComparison.allResults[1].similarity = 90
    /\ TheReport.faceComparison.allResults[2].similarity = 0

StartsWith(s, prefix) ==
    Len(s) >= Len(prefix) /\ SubSeq(s, 1, Len(prefix)) = prefix

\* C12: in every report built by createIdentificationReport, isIdentified is
\* true iff bestMatch is not null iff findBestMatch(outcomes, 80) is not null;
\* the recommendation is the 'Identified as {name} ...' text exactly when
\* isIdentified is true and 'No matching person found in reference database'
\* otherwise; and isIdentified implies successfulComparisons >= 1.
C12_IdentifiedIffBestMatch ==
    ReportBuilt =>
      LET found == findBestMatch(outcomes, 80).bestMatch
          fc == TheReport.faceComparison
      IN
      /\ TheReport.isIdentified <=> fc.bestMatch # None
      /\ fc.bestMatch # None <=> found # 0
      /\ found # 0 <=> QualifyingSet(outcomes, 80) # {}
      /\ TheReport.isIdentified =>
            /\ StartsWith(TheReport.recommendation,
                          "Identified as " \o outcomes[found].personName[1] \o " with ")
            /\ fc.bestMatch[1].personName = outcomes[found].personName
            /\ fc.successfulComparisons >= 1
      /\ ~TheReport.isIdentified =>
            TheReport.recommendation = "No matching person found in reference database"

\* An identifying report next to a successful outcome that does not qualify.
C12_Witness ==
    /\ ReportBuilt
    /\ TheReport.isIdentified
    /\ Len(outcomes) = 2
    /\ outcomes[1].success /\ outcomes[1].matches[1] # <<>>
    /\ FirstSimilarity(outcomes[1]) = 75
    /\ TheReport.faceComparison.bestMatch[1].personName = Some("Bo")
    /\ TheReport.recommendation = "Identified as Bo with 90.00% similarity"


----------------------------------------------------------------------------
(* SpecCompare: the FaceIdentification component.  A run of                  *)
(* performFaceComparison is cut at its awaits: one step per file read that   *)
(* settles and one per remote call that settles.                             *)

\* The people the uploaded files name (handleFileUpload: id and name come from
\* the file name).
RefPool == {[id |-> "1", name |-> "Al"], [id |-> "2", name |-> "Bo"]}

NoReport == [threw |-> FALSE, report |-> None]

InitCompare ==
    /\ livenessResult \in {LiveResult(TRUE), LiveResult(FALSE)}
    /\ referenceImages \in SeqsUpTo(RefPool, MaxRefs)
    /\ isComparing = FALSE
    /\ comparisonResults = <<>>
    /\ similarityThreshold = 80
    /\ cpc = "idle"
    /\ refImageData = <<>>
    /\ results = <<>>
    /\ idx = 0
    /\ inFlight = {}
    /\ callLog = <<>>
    /\ settled = <<>>
    /\ reportCalls = 0
    /\ lastReport = NoReport
    /\ alerts = 0
    /\ fileLog = <<>>
    /\ referenceImageFiles = <<>>
    /\ MatchIdle
    /\ RetryIdle
    /\ GeomIdle
    /\ AnalyzeIdle

retryVarsButReport ==
    <<loading, error, sessionId, livenessResults, showIdentification, isHandlingError,
      comparing, orphanRuns, cameraTests, retryCount, mountPc, hWaiting, fetches, analysisPending, detectorSeen,
      sessionsMade, errorsSeen, resetsSeen, autoSinceReset, lastEvent>>

\* The render of FaceIdentification with these results stored: lines 104 and
\* 250-282 read matches.length of every result (line 279 whatever its
\* success), a TypeError for a result without matches.  No error boundary is
\* above the component, so React then unmounts the whole tree.
RenderThrows(rs) == \E i \in 1..Len(rs) : rs[i].matches = None

\* A slip of lines 95-100: isComparing is reset at the end of the try block
\* and not in a finally block.
FinishRun_NoFinally(rs) ==
    LET rep == createIdentificationReport(livenessResult, rs) IN
    /\ comparisonResults' = rs
    /\ lastReport' = rep
    /\ reportCalls' = IF rep.threw THEN 0 ELSE 1
    /\ alerts' = IF rep.threw THEN 1 ELSE 0
    /\ identificationReport' = (identificationReport \/ ~rep.threw)
    /\ isComparing' = rep.threw
    /\ cpc' = IF RenderThrows(rs) THEN "unmounted" ELSE "done"

\* lines 88-101 of performFaceComparison, from the return of
\* compareLivenessFaceWithReferences on: store the results, build the report,
\* hand it to onIdentificationComplete (handleIdentificationComplete stores
\* it); a throw is caught and alerted; finally isComparing is reset.  Then the
\* component is rendered with the results: when that throws, the tree is
\* unmounted and the component takes no further step.
FinishRun(rs) ==
    LET rep == createIdentificationReport(livenessResult, rs) IN
    /\ comparisonResults' = rs
    /\ lastReport' = rep
    /\ reportCalls' = IF rep.threw THEN 0 ELSE 1
    /\ alerts' = IF rep.threw THEN 1 ELSE 0
    /\ identificationReport' = (identificationReport \/ ~rep.threw)
    /\ isComparing' = FALSE
    /\ cpc' = IF RenderThrows(rs) THEN "unmounted" ELSE "done"

\* lines 61-64: the guard of performFaceComparison fails.
PerformFaceComparisonRejected ==
    /\ cpc \in {"idle", "done"}
    /\ ~livenessResult.hasBytes \/ Len(referenceImages) = 0
    /\ alerts' = 1
    /\ UNCHANGED <<livenessResult, referenceImages, isComparing, comparisonResults,
                   similarityThreshold, cpc, refImageData, results, idx, inFlight,
                   callLog, settled, reportCalls, lastReport, fileLog,
                   referenceImageFiles, matchVars, retryVars, geomVars, analyzeVars>>

\* lines 61-77: the guard passes, the state is reset and loadReferenceImages
\* starts reading the first file.
PerformFaceComparisonStart ==
    /\ cpc \in {"idle", "done"}
    /\ livenessResult.hasBytes /\ Len(referenceImages) > 0
    /\ isComparing' = TRUE
    /\ comparisonResults' = <<>>
    /\ refImageData' = <<>>
    /\ results' = <<>>
    /\ idx' = 1
    /\ inFlight' = {}
    /\ callLog' = <<>>
    /\ settled' = <<>>
    /\ reportCalls' = 0
    /\ lastReport' = NoReport
    /\ alerts' = 0
    /\ fileLog' = <<>>
    /\ referenceImageFiles' = referenceImages
    /\ cpc' = "loading"
    /\ UNCHANGED <<livenessResult, referenceImages, similarityThreshold, matchVars,
                   geomVars, analyzeVars,
                   retryVars>>

\* A slip of lines 515-517: a reference whose file could not be read is kept,
\* without image data.
LoadedWith_KeptOnFailure(loadedSoFar, ref, ok) ==
    Append(loadedSoFar, [id |-> ref.id, name |-> ref.name,
                         imageBase64 |-> IF ok THEN "b64-" \o ref.id ELSE ""])

\* lines 508-517, one turn of the loop of loadReferenceImages: a file that was
\* read is pushed with its base64 text; a failure is logged and nothing is
\* pushed.
LoadedWith(loadedSoFar, ref, ok) ==
    IF ok
    THEN Append(loadedSoFar, [id |-> ref.id, name |-> ref.name,
                              imageBase64 |-> "b64-" \o ref.id])
    ELSE loadedSoFar

\* loadReferenceImages lines 507-518: the read of file idx settles; a file that
\* was read is pushed, one that failed is logged and skipped.  After the last
\* file compareLivenessFaceWithReferences is entered (lines 373-377).
FileSettles ==
    /\ cpc = "loading"
    /\ \E ok \in BOOLEAN :
        LET data == LoadedWith(refImageData, referenceImageFiles[idx], ok)
            started == CallsStartedOnEntry(Len(data))
        IN /\ refImageData' = data
           /\ fileLog' = Append(fileLog, ok)
           /\ IF idx < Len(referenceImageFiles)
              THEN /\ idx' = idx + 1
                   /\ UNCHANGED <<isComparing, comparisonResults, cpc, results, inFlight,
                                  callLog, settled, reportCalls, lastReport, alerts,
                                  identificationReport>>
              ELSE /\ idx' = 0
                   /\ results' = <<>>
                   /\ inFlight' = started
                   /\ callLog' = InOrder(started)
                   /\ UNCHANGED settled
                   /\ IF started = {}
                      THEN FinishRun(<<>>)
                      ELSE /\ cpc' = "comparing"
                           /\ UNCHANGED <<isComparing, comparisonResults, reportCalls,
                                          lastReport, alerts, identificationReport>>
    /\ UNCHANGED <<livenessResult, referenceImages, similarityThreshold,
                   referenceImageFiles, matchVars, geomVars, analyzeVars,
                   retryVarsButReport>>

\* compareLivenessFaceWithReferences lines 375-401: a pending call settles, its
\* result is pushed, and the loop either starts the next call or returns.
CallSettles ==
    /\ cpc = "comparing"
    /\ \E c \in inFlight, response \in Responses :
        LET threw == compareFacesAPI(response).threw
            rs == Append(results, ResultFor(refImageData[c], response))
            started == CallsStartedAfter(c, Len(refImageData), threw)
                          \ {callLog[k] : k \in 1..Len(callLog)}
            pending == (inFlight \ {c}) \cup started
        IN /\ results' = rs
           /\ settled' = Append(settled, [call |-> c, threw |-> threw])
           /\ callLog' = callLog \o InOrder(started)
           /\ inFlight' = pending
           /\ IF pending = {}
              THEN FinishRun(rs)
              ELSE /\ cpc' = "comparing"
                   /\ UNCHANGED <<isComparing, comparisonResults, reportCalls,
                                  lastReport, alerts, identificationReport>>
    /\ UNCHANGED <<livenessResult, referenceImages, similarityThreshold, refImageData,
                   idx, fileLog, referenceImageFiles, matchVars, retryVarsButReport,
                   geomVars, analyzeVars>>

\* The component's state apart from the list of reference images and the
\* threshold: a run in progress does not read them again.
runVars == <<livenessResult, isComparing, comparisonResults, cpc, refImageData, results,
             idx, inFlight, callLog, settled, reportCalls, lastReport, alerts, fileLog,
             referenceImageFiles>>

\* handleFileUpload lines 28-49: the file input (never disabled) hands over
\* image files named personId_personName.jpg; one entry per file is appended.
HandleFileUpload ==
    /\ cpc # "unmounted"
    /\ \E files \in SeqsUpTo(RefPool, MaxRefs) :
         /\ files # <<>>
         /\ Len(referenceImages) + Len(files) <= MaxRefs
         /\ referenceImages' = referenceImages \o files
    /\ UNCHANGED <<similarityThreshold, runVars, matchVars, retryVars, geomVars,
                   analyzeVars>>

\* removeReferenceImage lines 51-58: the Remove button of entry index.
RemoveReferenceImage ==
    /\ cpc # "unmounted"
    /\ \E index \in 1..Len(referenceImages) :
         referenceImages' = SubSeq(referenceImages, 1, index - 1)
                               \o SubSeq(referenceImages, index + 1, Len(referenceImages))
    /\ UNCHANGED <<similarityThreshold, runVars, matchVars, retryVars, geomVars,
                   analyzeVars>>

\* The positions of the range input used here (min 50, max 99, lines 163-170).
SliderValues == {50, 80, 99}

\* line 169: onChange of the slider, setSimilarityThreshold(Number(value)).
SetSimilarityThreshold ==
    /\ cpc # "unmounted"
    /\ \E value \in SliderValues :
         /\ value # similarityThreshold
         /\ similarityThreshold' = value
    /\ UNCHANGED <<referenceImages, runVars, matchVars, retryVars, geomVars,
                   analyzeVars>>

NextCompare ==
    \/ PerformFaceComparisonRejected
    \/ PerformFaceComparisonStart
    \/ FileSettles
    \/ CallSettles
    \/ HandleFileUpload
    \/ RemoveReferenceImage
    \/ SetSimilarityThreshold

SpecCompare == InitCompare /\ [][NextCompare]_vars


----------------------------------------------------------------------------
(* Claims about the comparison run (SpecCompare) *)

\* sub occurs in the string s
Contains(s, sub) ==
    \E k \in 1..(Len(s) - Len(sub) + 1) : SubSeq(s, k, k + Len(sub) - 1) = sub

\* C2: the remote comparison calls are issued one at a time and in the input
\* order of the reference list: the call of reference k+1 is not started before
\* the call of reference k has settled, so at most one call is in flight.
C2_OneCallAtATime ==
    /\ Cardinality(inFlight) <= 1
    /\ \A k \in 1..Len(callLog) : callLog[k] = k
    /\ \A k \in 1..Len(settled) : settled[k].call = k
    /\ Len(callLog) <= Len(settled) + 1
    /\ inFlight = {k \in 1..Len(callLog) : k > Len(settled)}

\* C2 witness: the second call is in flight after the first one was rejected.
C2_Witness ==
    /\ cpc = "comparing"
    /\ callLog = <<1, 2>>
    /\ inFlight = {2}
    /\ Len(settled) = 1 /\ settled[1].threw

\* C3: a failed call never aborts the sequence: the results hold one outcome
\* per reference, in input order, outcome i with the id and name of reference
\* i, and every call is made whatever calls failed before it.
C3_OneOutcomePerReference ==
    /\ \A i \in 1..Len(results) :
         /\ i <= Len(refImageData)
         /\ results[i].personId = Some(refImageData[i].id)
         /\ results[i].personName = Some(refImageData[i].name)
    /\ cpc \in {"done", "unmounted"} =>
         /\ comparisonResults = results
         /\ Len(results) = Len(refImageData)
         /\ Len(callLog) = Len(refImageData)

\* C3 witness: a finished run over two different references whose first call
\* failed and whose second call returned a body naming another person.
C3_Witness ==
    /\ cpc = "done"
    /\ Len(results) = 2
    /\ refImageData[1].id # refImageData[2].id
    /\ settled[1].threw /\ ~settled[2].threw
    /\ Considered(results[2]) /\ FirstSimilarity(results[2]) = 80

\* C4: the outcome recorded for a reference whose call failed (the fetch was
\* rejected, the status was not OK) has success=false, an empty match list and
\* an error string that contains the reference's display name.
C4_FailedCallOutcome ==
    \A i \in 1..Len(settled) :
        settled[i].threw =>
            /\ i <= Len(results)
            /\ ~results[i].success
            /\ results[i].matches = Some(<<>>)
            /\ results[i].error # None
            /\ Contains(results[i].error[1], refImageData[settled[i].call].name)

\* C4 witness: a rejected fetch for one reference and a status 500 for another.
C4_Witness ==
    /\ Len(settled) = 2 /\ settled[1].threw /\ settled[2].threw
    /\ refImageData[1].name = "Al" /\ refImageData[2].name = "Bo"
    /\ Contains(results[1].error[1], "Failed to fetch")
    /\ Contains(results[2].error[1], "status: 500")

\* C6 (as claimed): createIdentificationReport returns a report and never
\* throws, for every list of outcomes the comparison step produces.
C6_ReportNeverThrows ==
    cpc \in {"done", "unmounted"} => ~lastReport.threw


----------------------------------------------------------------------------
(* SpecRetry: the LivenessQuickStartReact component.  Handlers run to their  *)
(* next await in one step; a timer that fires and a request that settles are *)
(* steps of their own.                                                       *)

MAX_RETRIES == 2

CameraMessage ==
    "Camera permission is required for face liveness detection. Please allow camera access and try again."
CreateFailedMessage == "Failed to create liveness session. Please try again."
ResultsFailedMessage == "Failed to get liveness results. Please try again."
ResultsErrorMessage == "Error processing liveness results. Please try again."

\* The error objects the detector hands to onError: with a message, with a
\* code only, with neither.
ErrorEvents ==
    { [message |-> Some("Session expired"), code |-> None],
      [message |-> None, code |-> Some("SERVER_ERROR")],
      [message |-> None, code |-> None] }

\* line 326: error?.message || error?.code || 'Unknown error'
ErrorMessageOf(e) ==
    IF e.message # None THEN e.message[1]
    ELSE IF e.code # None THEN e.code[1]
    ELSE "Unknown error"

\* line 327
TerminalMessage(e) ==
    "Face liveness detection failed after multiple attempts. Error: "
        \o ErrorMessageOf(e) \o ". Please refresh the page to try again."

TerminalMessages == {TerminalMessage(e) : e \in ErrorEvents}

\* lines 362-373, 524: what the component renders
ViewOf(err, ld, lr) ==
    IF err # None THEN "error"
    ELSE IF ld THEN "loader"
    ELSE IF lr # None THEN "results"
    ELSE "detector"

\* The tree is rendered: no render has thrown.
Mounted == mountPc # "unmounted"

View == IF Mounted THEN ViewOf(error, loading, livenessResults) ELSE "unmounted"

\* The detector of the next state is noted once it is rendered.
NoteDetector ==
    detectorSeen' =
        (detectorSeen \/ ViewOf(error', loading', livenessResults') = "detector")

\* lines 480-484: the FaceIdentification component is rendered in the results
\* view of a live result while showIdentification is set.
FaceIdentificationShown(err, ld, lr, show) ==
    ViewOf(err, ld, lr) = "results" /\ lr[1].isLive /\ show

\* A run of performFaceComparison goes on when its component is unmounted: it
\* is then counted in orphanRuns, and a component rendered later is a new one.
NoteComparing ==
    LET shown == FaceIdentificationShown(error', loading', livenessResults',
                                         showIdentification')
    IN /\ comparing' = (comparing /\ shown)
       /\ orphanRuns' = IF comparing /\ ~shown THEN orphanRuns + 1 ELSE orphanRuns

\* A slip of line 323: the retry counter is not compared with MAX_RETRIES.
RetryRefused_NoLimit(handling, count) == handling

\* A slip of line 323: isHandlingError is not looked at.
RetryRefused_NotHandling(handling, count) == count >= MAX_RETRIES

\* line 323: isHandlingError.current || retryCount.current >= MAX_RETRIES
RetryRefused(handling, count) == handling \/ count >= MAX_RETRIES

InitRetry ==
    /\ loading = TRUE
    /\ error = None
    /\ sessionId = 0
    /\ livenessResults = None
    /\ identificationReport = FALSE
    /\ showIdentification = FALSE
    /\ isHandlingError = FALSE
    /\ comparing = FALSE
    /\ orphanRuns = 0
    /\ cameraTests = 0
    /\ retryCount = 0
    /\ mountPc = "camera"
    /\ hWaiting = 0
    /\ fetches = NoFetches
    /\ analysisPending = FALSE
    /\ detectorSeen = FALSE
    /\ sessionsMade = 0
    /\ errorsSeen = 0
    /\ resetsSeen = 0
    /\ autoSinceReset = 0
    /\ lastEvent = "init"
    /\ MatchIdle
    /\ CompareIdle
    /\ GeomIdle
    /\ AnalyzeIdle

\* lines 119-132 and 58-69: the mount effect has reset retryCount and awaits
\* checkCameraPermissions; granted, it calls fetchCreateLiveness; denied, the
\* camera message is set.
CameraSettles ==
    /\ mountPc = "camera"
    /\ mountPc' = "done"
    /\ \E granted \in BOOLEAN :
         IF granted
         THEN /\ fetches' = [fetches EXCEPT !.mount = @ + 1]
              /\ UNCHANGED error
         ELSE /\ error' = Some(CameraMessage)
              /\ UNCHANGED fetches
    /\ lastEvent' = "other"
    /\ UNCHANGED <<loading, sessionId, livenessResults, identificationReport,
                   showIdentification, isHandlingError, retryCount, hWaiting,
                   analysisPending, sessionsMade, errorsSeen, resetsSeen, autoSinceReset>>
    /\ NoteDetector
    /\ NoteComparing
    /\ UNCHANGED cameraTests
    /\ UNCHANGED <<matchVars, compareVars, geomVars, analyzeVars>>

\* A slip of lines 107-109: a created session clears the error.
ErrorAfterCreate_Cleared(ok, err) == IF ok THEN None ELSE Some(CreateFailedMessage)

\* lines 105-115: the error state once fetchCreateLiveness has finished; only
\* the catch block touches it.
ErrorAfterCreate(ok, err) == IF ok THEN err ELSE Some(CreateFailedMessage)

\* A slip of line 344: the flag is left as it was.
HandlingAfterCreate_Kept(caller, handling) == handling

\* line 344: handleError resets isHandlingError after its awaited
\* fetchCreateLiveness; the other callers do not touch it.
HandlingAfterCreate(caller, handling) ==
    IF caller = "handleError" THEN FALSE ELSE handling

\* fetchCreateLiveness lines 88-117: the request settles.  data.success stores
\* the new session and clears loading; a rejected fetch, an unparsable body
\* and success=false clear loading and set the error.  When handleError made
\* the call, line 344 resets isHandlingError next.  The state setters have no
\* effect once the tree is unmounted; the ref of line 344 is still written.
FetchSettles ==
    /\ \E caller \in {"mount", "handleError", "retryLiveness"}, ok \in BOOLEAN :
         /\ fetches[caller] > 0
         /\ fetches' = [fetches EXCEPT ![caller] = @ - 1]
         /\ sessionsMade' = IF ok THEN sessionsMade + 1 ELSE sessionsMade
         /\ IF Mounted
            THEN /\ sessionId' = IF ok THEN sessionsMade + 1 ELSE sessionId
                 /\ lastEvent' = IF ok THEN "fetchOk" ELSE "fetchFailed"
                 /\ error' = ErrorAfterCreate(ok, error)
                 /\ loading' = FALSE
            ELSE /\ UNCHANGED <<sessionId, error, loading>>
                 /\ lastEvent' = "other"
         /\ isHandlingError' = HandlingAfterCreate(caller, isHandlingError)
    /\ UNCHANGED <<livenessResults, identificationReport, showIdentification, retryCount,
                   mountPc, hWaiting, analysisPending, errorsSeen, resetsSeen,
                   autoSinceReset>>
    /\ NoteDetector
    /\ NoteComparing
    /\ UNCHANGED cameraTests
    /\ UNCHANGED <<matchVars, compareVars, geomVars, analyzeVars>>

\* handleError lines 306-338: an error event of a detector that was rendered.
\* Refused, it sets the terminal message; otherwise it begins a retry and
\* waits on the 1 s timer.
HandleError ==
    /\ Mounted
    /\ detectorSeen
    /\ errorsSeen < MaxErrors
    /\ errorsSeen' = errorsSeen + 1
    /\ \E e \in ErrorEvents :
         IF RetryRefused(isHandlingError, retryCount)
         THEN /\ loading' = FALSE
              /\ error' = Some(TerminalMessage(e))
              /\ lastEvent' = "errorTerminal"
              /\ UNCHANGED <<isHandlingError, retryCount, hWaiting, autoSinceReset>>
         ELSE /\ isHandlingError' = TRUE
              /\ retryCount' = retryCount + 1
              /\ loading' = TRUE
              /\ hWaiting' = hWaiting + 1
              /\ autoSinceReset' = autoSinceReset + 1
              /\ lastEvent' = "other"
              /\ UNCHANGED error
    /\ UNCHANGED <<sessionId, livenessResults, identificationReport, showIdentification,
                   mountPc, fetches, analysisPending, sessionsMade, resetsSeen>>
    /\ NoteDetector
    /\ NoteComparing
    /\ UNCHANGED cameraTests
    /\ UNCHANGED <<matchVars, compareVars, geomVars, analyzeVars>>

\* handleError lines 338-341: the timer fires and fetchCreateLiveness is called.
TimerFires ==
    /\ hWaiting > 0
    /\ hWaiting' = hWaiting - 1
    /\ fetches' = [fetches EXCEPT !.handleError = @ + 1]
    /\ lastEvent' = "other"
    /\ UNCHANGED <<loading, error, sessionId, livenessResults, identificationReport,
                   showIdentification, isHandlingError, retryCount, mountPc,
                   analysisPending, sessionsMade, errorsSeen, resetsSeen, autoSinceReset>>
    /\ NoteDetector
    /\ NoteComparing
    /\ UNCHANGED cameraTests
    /\ UNCHANGED <<matchVars, compareVars, geomVars, analyzeVars>>

\* A slip of line 350: the liveness results are kept.
RetryLiveness_KeepsResults ==
    /\ View \in {"error", "results"}
    /\ resetsSeen < MaxResets
    /\ resetsSeen' = resetsSeen + 1
    /\ retryCount' = 0
    /\ error' = None
    /\ identificationReport' = FALSE
    /\ showIdentification' = FALSE
    /\ loading' = TRUE
    /\ fetches' = [fetches EXCEPT !.retryLiveness = @ + 1]
    /\ autoSinceReset' = 0
    /\ lastEvent' = "reset"
    /\ UNCHANGED <<sessionId, livenessResults, isHandlingError, mountPc, hWaiting,
                   analysisPending, sessionsMade, errorsSeen>>
    /\ NoteDetector
    /\ NoteComparing
    /\ UNCHANGED cameraTests
    /\ UNCHANGED <<matchVars, compareVars, geomVars, analyzeVars>>

\* retryLiveness lines 347-355, from the Try Again button of the error view or
\* the Start New Liveness Check button of the results view (lines 504-509).
RetryLiveness ==
    /\ View \in {"error", "results"}
    /\ resetsSeen < MaxResets
    /\ resetsSeen' = resetsSeen + 1
    /\ retryCount' = 0
    /\ error' = None
    /\ livenessResults' = None
    /\ identificationReport' = FALSE
    /\ showIdentification' = FALSE
    /\ loading' = TRUE
    /\ fetches' = [fetches EXCEPT !.retryLiveness = @ + 1]
    /\ autoSinceReset' = 0
    /\ lastEvent' = "reset"
    /\ UNCHANGED <<sessionId, isHandlingError, mountPc, hWaiting, analysisPending,
                   sessionsMade, errorsSeen>>
    /\ NoteDetector
    /\ NoteComparing
    /\ UNCHANGED cameraTests
    /\ UNCHANGED <<matchVars, compareVars, geomVars, analyzeVars>>

\* handleAnalysisComplete lines 134-147: with a session it requests the results.
HandleAnalysisComplete ==
    /\ View = "detector"
    /\ sessionId # 0
    /\ ~analysisPending
    /\ analysisPending' = TRUE
    /\ lastEvent' = "other"
    /\ UNCHANGED <<loading, error, sessionId, livenessResults, identificationReport,
                   showIdentification, isHandlingError, retryCount, mountPc, hWaiting,
                   fetches, sessionsMade, errorsSeen, resetsSeen, autoSinceReset>>
    /\ NoteDetector
    /\ NoteComparing
    /\ UNCHANGED cameraTests
    /\ UNCHANGED <<matchVars, compareVars, geomVars, analyzeVars>>

\* handleAnalysisComplete lines 148-231: the results request settles with
\* success (the results are stored, line 152), with success and an exception
\* in the processing of lines 157-223 (getFaceQualityScore of an image without
\* BoundingBox: the results are stored and the catch block sets the error),
\* with success=false, or with an exception before the results are stored.
AnalysisSettles ==
    /\ analysisPending
    /\ analysisPending' = FALSE
    /\ lastEvent' = "other"
    /\ \/ /\ Mounted
          /\ \E live \in BOOLEAN : livenessResults' = Some([isLive |-> live])
          /\ UNCHANGED error
       \/ /\ Mounted
          /\ \E live \in BOOLEAN : livenessResults' = Some([isLive |-> live])
          /\ error' = Some(ResultsErrorMessage)
       \/ /\ Mounted
          /\ error' \in {Some(ResultsFailedMessage), Some(ResultsErrorMessage)}
          /\ UNCHANGED livenessResults
       \/ /\ ~Mounted
          /\ UNCHANGED <<livenessResults, error>>
    /\ UNCHANGED <<loading, sessionId, identificationReport, showIdentification,
                   isHandlingError, retryCount, mountPc, hWaiting, fetches, sessionsMade,
                   errorsSeen, resetsSeen, autoSinceReset>>
    /\ NoteDetector
    /\ NoteComparing
    /\ UNCHANGED cameraTests
    /\ UNCHANGED <<matchVars, compareVars, geomVars, analyzeVars>>

\* line 465: the Identify Person / Hide Identification button of a live result.
ToggleIdentification ==
    /\ View = "results"
    /\ livenessResults[1].isLive
    /\ showIdentification' = ~showIdentification
    /\ lastEvent' = "other"
    /\ UNCHANGED <<loading, error, sessionId, livenessResults, identificationReport,
                   isHandlingError, retryCount, mountPc, hWaiting, fetches,
                   analysisPending, sessionsMade, errorsSeen, resetsSeen, autoSinceReset>>
    /\ NoteDetector
    /\ NoteComparing
    /\ UNCHANGED cameraTests
    /\ UNCHANGED <<matchVars, compareVars, geomVars, analyzeVars>>

\* FaceIdentification.tsx lines 60-77: the Compare button of the component
\* that is shown starts a run of performFaceComparison; the button is disabled
\* while that component has one in flight.
PerformFaceComparisonClicked ==
    /\ Mounted
    /\ FaceIdentificationShown(error, loading, livenessResults, showIdentification)
    /\ ~comparing
    /\ orphanRuns < MaxRuns
    /\ comparing' = TRUE
    /\ lastEvent' = "other"
    /\ UNCHANGED <<loading, error, sessionId, livenessResults, identificationReport,
                   showIdentification, isHandlingError, orphanRuns, cameraTests,
                   retryCount, mountPc, hWaiting, fetches, analysisPending, sessionsMade,
                   errorsSeen, resetsSeen, autoSinceReset>>
    /\ NoteDetector
    /\ UNCHANGED <<matchVars, compareVars, geomVars, analyzeVars>>

\* A run in flight ends, of the component shown or of an unmounted one.
RunEnds ==
    \/ /\ comparing
       /\ comparing' = FALSE
       /\ UNCHANGED orphanRuns
    \/ /\ orphanRuns > 0
       /\ orphanRuns' = orphanRuns - 1
       /\ UNCHANGED comparing

\* handleIdentificationComplete lines 357-360, called from line 94 of
\* FaceIdentification.tsx when the requests of a run have settled, whether or
\* not the component is still rendered: the report is stored (unless the
\* whole tree is unmounted).
HandleIdentificationComplete ==
    /\ RunEnds
    /\ identificationReport' = IF Mounted THEN TRUE ELSE identificationReport
    /\ lastEvent' = "other"
    /\ UNCHANGED <<loading, error, sessionId, livenessResults, showIdentification,
                   isHandlingError, cameraTests, retryCount, mountPc, hWaiting, fetches,
                   analysisPending, sessionsMade, errorsSeen, resetsSeen, autoSinceReset>>
    /\ NoteDetector
    /\ UNCHANGED <<matchVars, compareVars, geomVars, analyzeVars>>

\* FaceIdentification.tsx lines 96-101: a run ends in the catch block, no
\* report is handed over: a result without matches made
\* createIdentificationReport throw.  The results were stored on line 89, so
\* when the run's component is still rendered its next render throws (line
\* 279) and React unmounts the whole tree, this component included; on an
\* unmounted component the setters have no effect.
PerformFaceComparisonFails ==
    /\ \/ /\ comparing
          /\ comparing' = FALSE
          /\ mountPc' = "unmounted"
          /\ UNCHANGED orphanRuns
       \/ /\ orphanRuns > 0
          /\ orphanRuns' = orphanRuns - 1
          /\ UNCHANGED <<comparing, mountPc>>
    /\ lastEvent' = "other"
    /\ UNCHANGED <<loading, error, sessionId, livenessResults, identificationReport,
                   showIdentification, isHandlingError, cameraTests, retryCount,
                   hWaiting, fetches, analysisPending, sessionsMade, errorsSeen,
                   resetsSeen, autoSinceReset>>
    /\ NoteDetector
    /\ UNCHANGED <<matchVars, compareVars, geomVars, analyzeVars>>

\* lines 543-548 and 58-60: the Test Camera button calls
\* checkCameraPermissions, which awaits getUserMedia.
TestCamera ==
    /\ View = "detector"
    /\ cameraTests < MaxCameraTests
    /\ cameraTests' = cameraTests + 1
    /\ lastEvent' = "other"
    /\ UNCHANGED <<loading, error, sessionId, livenessResults, identificationReport,
                   showIdentification, isHandlingError, retryCount, mountPc, hWaiting,
                   fetches, analysisPending, sessionsMade, errorsSeen, resetsSeen,
                   autoSinceReset>>
    /\ NoteDetector
    /\ NoteComparing
    /\ UNCHANGED <<matchVars, compareVars, geomVars, analyzeVars>>

\* lines 60-68: getUserMedia of a Test Camera click settles; denied, the
\* camera message is set, whatever is rendered by then (nothing is set once
\* the tree is unmounted).
TestCameraSettles ==
    /\ cameraTests > 0
    /\ cameraTests' = cameraTests - 1
    /\ \E granted \in BOOLEAN :
         error' = IF Mounted /\ ~granted THEN Some(CameraMessage) ELSE error
    /\ lastEvent' = "other"
    /\ UNCHANGED <<loading, sessionId, livenessResults, identificationReport,
                   showIdentification, isHandlingError, retryCount, mountPc, hWaiting,
                   fetches, analysisPending, sessionsMade, errorsSeen, resetsSeen,
                   autoSinceReset>>
    /\ NoteDetector
    /\ NoteComparing
    /\ UNCHANGED <<matchVars, compareVars, geomVars, analyzeVars>>

NextRetry ==
    \/ CameraSettles
    \/ FetchSettles
    \/ HandleError
    \/ TimerFires
    \/ RetryLiveness
    \/ HandleAnalysisComplete
    \/ AnalysisSettles
    \/ ToggleIdentification
    \/ PerformFaceComparisonClicked
    \/ HandleIdentificationComplete
    \/ PerformFaceComparisonFails
    \/ TestCamera
    \/ TestCameraSettles

SpecRetry == InitRetry /\ [][NextRetry]_vars

\* The request of a handleError retry settles.
RetryFetchSettles == FetchSettles /\ fetches'.handleError < fetches.handleError

\* SpecRetry where the 1 s timer of line 338 fires and the request of a
\* handleError retry settles.
SpecRetryFair == SpecRetry /\ WF_vars(TimerFires) /\ WF_vars(RetryFetchSettles)


----------------------------------------------------------------------------
(* Claims about the bounded retry (SpecRetry) *)

\* C7: between two resets of the retry counter (the mount, retryLiveness) at
\* most MAX_RETRIES error events begin an automatic session re-creation and
\* the counter never exceeds MAX_RETRIES; every further error event sets the
\* terminal message, clears loading and begins no session creation, also when
\* the earlier retries succeeded.
C7_RetryBoundedByTwo ==
    /\ [](retryCount <= MAX_RETRIES /\ autoSinceReset <= MAX_RETRIES)
    /\ [][(errorsSeen' = errorsSeen + 1 /\ autoSinceReset = MAX_RETRIES) =>
             /\ error' # None /\ error'[1] \in TerminalMessages
             /\ ~loading'
             /\ hWaiting' = hWaiting
             /\ fetches' = fetches
             /\ sessionsMade' = sessionsMade
             /\ retryCount' = retryCount
             /\ autoSinceReset' = autoSinceReset]_vars

\* C7 witness: after a retryLiveness both automatic retries were begun and
\* every session creation so far succeeded (the mount's, the user's and the
\* two retries'); a third error event has just set the terminal message while
\* no handleError was in progress.
C7_Witness ==
    /\ lastEvent = "errorTerminal"
    /\ resetsSeen = 1
    /\ autoSinceReset = MAX_RETRIES
    /\ ~isHandlingError /\ hWaiting = 0 /\ fetches = NoFetches
    /\ sessionsMade = 4
    /\ error # None /\ error[1] \in TerminalMessages

----------------------------------------------------------------------------
(* JavaScript numbers.                                                       *)
(*                                                                           *)
(* Every Number of faceDetectionUtils is an IEEE 754 binary64 value and      *)
(* every +, -, * and / rounds its exact result to the nearest such value,    *)
(* ties to even.  A finite number is sign * m * 2^e; m is a natural number   *)
(* of any size, kept as its digits in base 2^15, least significant first,    *)
(* without leading zero digits (<<>> is 0).  A Number has m = 0, e = 0 or    *)
(* 2^52 <= m < 2^53.  Exponents are not bounded: the boxes the model feeds   *)
(* in stay far away from overflow and from subnormal results.  NaN and       *)
(* Infinity appear only as the results of a division by zero.               *)

Base == 2^15
LimbBits == 15

\* Significand width of binary64 (ECMAScript Number)
Precision == 53

RECURSIVE BTrim(_)
BTrim(x) ==
    IF x = <<>> THEN <<>>
    ELSE IF x[Len(x)] = 0 THEN BTrim(SubSeq(x, 1, Len(x) - 1)) ELSE x

RECURSIVE BFromInt(_)
BFromInt(n) == IF n = 0 THEN <<>> ELSE <<n % Base>> \o BFromInt(n \div Base)

Limb(x, i) == IF i <= Len(x) THEN x[i] ELSE 0

RECURSIVE BAddFrom(_, _, _, _)
BAddFrom(x, y, i, carry) ==
    IF i > Len(x) /\ i > Len(y) THEN (IF carry = 0 THEN <<>> ELSE <<carry>>)
    ELSE <<(Limb(x, i) + Limb(y, i) + carry) % Base>>
         \o BAddFrom(x, y, i + 1, (Limb(x, i) + Limb(y, i) + carry) \div Base)

BAdd(x, y) == BAddFrom(x, y, 1, 0)

RECURSIVE BSubFrom(_, _, _, _)
BSubFrom(x, y, i, borrow) ==
    IF i > Len(x) THEN <<>>
    ELSE IF Limb(x, i) - Limb(y, i) - borrow < 0
         THEN <<Limb(x, i) - Limb(y, i) - borrow + Base>> \o BSubFrom(x, y, i + 1, 1)
         ELSE <<Limb(x, i) - Limb(y, i) - borrow>> \o BSubFrom(x, y, i + 1, 0)

\* x - y for x >= y
BSub(x, y) == BTrim(BSubFrom(x, y, 1, 0))

RECURSIVE BLessAt(_, _, _)
BLessAt(x, y, i) ==
    IF i = 0 THEN FALSE
    ELSE IF x[i] # y[i] THEN x[i] < y[i] ELSE BLessAt(x, y, i - 1)

BLess(x, y) == IF Len(x) # Len(y) THEN Len(x) < Len(y) ELSE BLessAt(x, y, Len(x))

RECURSIVE BMulSmallFrom(_, _, _, _)
BMulSmallFrom(x, k, i, carry) ==
    IF i > Len(x) THEN (IF carry = 0 THEN <<>> ELSE <<carry>>)
    ELSE <<(x[i] * k + carry) % Base>>
         \o BMulSmallFrom(x, k, i + 1, (x[i] * k + carry) \div Base)

\* x * k for a single digit k
BMulSmall(x, k) == IF k = 0 THEN <<>> ELSE BMulSmallFrom(x, k, 1, 0)

ZeroLimbs(n) == [i \in 1..n |-> 0]

RECURSIVE BMulFrom(_, _, _)
BMulFrom(x, y, i) ==
    IF i > Len(y) THEN <<>>
    ELSE BAdd(BTrim(ZeroLimbs(i - 1) \o BMulSmall(x, y[i])), BMulFrom(x, y, i + 1))

BMul(x, y) == BMulFrom(x, y, 1)

\* x * 2^k
BShl(x, k) == BTrim(ZeroLimbs(k \div LimbBits) \o BMulSmall(x, 2^(k % LimbBits)))

RECURSIVE BDivSmallAt(_, _, _, _)
BDivSmallAt(x, d, i, rem) ==
    IF i = 0 THEN <<>>
    ELSE BDivSmallAt(x, d, i - 1, (rem * Base + x[i]) % d)
         \o <<(rem * Base + x[i]) \div d>>

\* floor(x / 2^k)
BShr(x, k) ==
    IF k \div LimbBits >= Len(x) THEN <<>>
    ELSE LET y == SubSeq(x, (k \div LimbBits) + 1, Len(x))
         IN BTrim(BDivSmallAt(y, 2^(k % LimbBits), Len(y), 0))

RECURSIVE SmallBitLen(_)
SmallBitLen(n) == IF n = 0 THEN 0 ELSE 1 + SmallBitLen(n \div 2)

BitLen(x) == IF x = <<>> THEN 0 ELSE LimbBits * (Len(x) - 1) + SmallBitLen(x[Len(x)])

BIsOdd(x) == x # <<>> /\ x[1] % 2 = 1

\* ---- exact arithmetic on sign * m * 2^e

Dyadic(neg, m, e) == [neg |-> neg /\ m # <<>>, m |-> m, e |-> IF m = <<>> THEN 0 ELSE e]

XInt(n) == IF n < 0 THEN Dyadic(TRUE, BFromInt(-n), 0) ELSE Dyadic(FALSE, BFromInt(n), 0)

xneg(a) == Dyadic(~a.neg, a.m, a.e)

xadd(a, b) ==
    IF a.m = <<>> THEN b
    ELSE IF b.m = <<>> THEN a
    ELSE LET e0 == IF a.e < b.e THEN a.e ELSE b.e
             am == BShl(a.m, a.e - e0)
             bm == BShl(b.m, b.e - e0)
         IN IF a.neg = b.neg THEN Dyadic(a.neg, BAdd(am, bm), e0)
            ELSE IF BLess(am, bm) THEN Dyadic(b.neg, BSub(bm, am), e0)
            ELSE Dyadic(a.neg, BSub(am, bm), e0)

xsub(a, b) == xadd(a, xneg(b))

xmul(a, b) == Dyadic(a.neg # b.neg, BMul(a.m, b.m), a.e + b.e)

\* ---- rounding to a Number

\* sign * (m + f) * 2^e rounded to nearest, ties to even; f is a fraction in
\* [0,1) of which only sticky (f > 0) is known.  sticky is set only when m
\* has more than Precision + 1 bits.
RoundToNumber(neg, m, e, sticky) ==
    IF m = <<>> THEN Dyadic(FALSE, <<>>, 0)
    ELSE IF BitLen(m) <= Precision
    THEN Dyadic(neg, BShl(m, Precision - BitLen(m)), e - (Precision - BitLen(m)))
    ELSE LET k == BitLen(m) - Precision
             q == BShr(m, k)
             r == BSub(m, BShl(q, k))
             half == BShl(<<1>>, k - 1)
             up == BLess(half, r) \/ (r = half /\ (sticky \/ BIsOdd(q)))
             q1 == IF up THEN BAdd(q, <<1>>) ELSE q
         IN IF BitLen(q1) > Precision THEN Dyadic(neg, BShr(q1, 1), e + k + 1)
            ELSE Dyadic(neg, q1, e + k)

Round(x) == RoundToNumber(x.neg, x.m, x.e, FALSE)

\* an integer literal
Int2Num(n) == Round(XInt(n))

NotANumber == [neg |-> FALSE, m |-> <<>>, e |-> -1]
Infinity == [neg |-> FALSE, m |-> <<>>, e |-> 1]

fadd(a, b) == Round(xadd(a, b))
fsub(a, b) == Round(xsub(a, b))
fmul(a, b) == Round(xmul(a, b))

\* One more quotient bit of r / d, r < d
DivStep(s, d) ==
    IF BLess(BShl(s.r, 1), d)
    THEN [q |-> BShl(s.q, 1), r |-> BShl(s.r, 1)]
    ELSE [q |-> BAdd(BShl(s.q, 1), <<1>>), r |-> BSub(BShl(s.r, 1), d)]

\* k more quotient bits; once the remainder is 0 the remaining bits are 0
RECURSIVE DivBits(_, _, _)
DivBits(s, d, k) ==
    IF s.r = <<>> \/ k = 0 THEN [q |-> BShl(s.q, k), r |-> s.r]
    ELSE DivBits(DivStep(s, d), d, k - 1)

QuotientBits == Precision + 3

\* a / b of two Numbers: 0/0 is NaN, x/0 is Infinity
fdiv(a, b) ==
    IF b.m = <<>> THEN (IF a.m = <<>> THEN NotANumber ELSE Infinity)
    ELSE IF a.m = <<>> THEN a
    ELSE LET first == IF BLess(a.m, b.m) THEN [q |-> <<>>, r |-> a.m]
                      ELSE [q |-> <<1>>, r |-> BSub(a.m, b.m)]
             d == DivBits(first, b.m, QuotientBits)
         IN RoundToNumber(a.neg # b.neg, d.q, a.e - b.e - QuotientBits, d.r # <<>>)

\* a < b, a <= b
fless(a, b) == xsub(a, b).neg
fleq(a, b) == ~fless(b, a)

\* a decimal literal k/d (d a power of ten): the Number nearest to it
Num(k, d) == fdiv(Int2Num(k), Int2Num(d))

MathMin(a, b) == IF fless(b, a) THEN b ELSE a
MathMax(a, b) == IF fless(a, b) THEN b ELSE a
MathAbs(a) == Dyadic(FALSE, a.m, a.e)

\* floor(x) of an exact value
xfloor(a) ==
    IF a.e >= 0 THEN a
    ELSE IF ~a.neg THEN Dyadic(FALSE, BShr(a.m, -a.e), 0)
    ELSE Dyadic(TRUE, BShr(BAdd(a.m, BSub(BShl(<<1>>, -a.e), <<1>>)), -a.e), 0)

\* A slip of line 125: the score is not rounded.
MathRound_None(x) == x

\* Math.round(x) = floor(x + 0.5)
MathRound(x) == Round(xfloor(xadd(x, Dyadic(FALSE, <<1>>, -1))))

----------------------------------------------------------------------------
(* faceDetectionUtils: the geometry functions *)

\* The integer literals 0, 1, ..., 400 and the decimal literals 0.000, 0.001,
\* ..., 1.000 as Numbers
Whole == [n \in 0..400 |-> Int2Num(n)]
Thousandths == [k \in 0..1000 |-> Num(k, 1000)]

\* interface BoundingBox, written in thousandths of the image side
BoundingBox(left, top, width, height) ==
    [Left |-> Thousandths[left], Top |-> Thousandths[top],
     Width |-> Thousandths[width], Height |-> Thousandths[height]]

\* line 84: boundingBox.Width * boundingBox.Height
\* Math.round(x * size), lines 71-74
ToPixels(x, size) == MathRound(fmul(x, size))

\* lines 65-76.  The function has no statement that throws: threw is FALSE
\* for every input.
normalizedToPixelCoords(boundingBox, imageWidth, imageHeight) ==
    [threw |-> FALSE,
     left |-> ToPixels(boundingBox.Left, imageWidth),
     top |-> ToPixels(boundingBox.Top, imageHeight),
     width |-> ToPixels(boundingBox.Width, imageWidth),
     height |-> ToPixels(boundingBox.Height, imageHeight)]

\* A slip of line 84: the sides are added.
calculateBoundingBoxArea_Sum(boundingBox) == fadd(boundingBox.Width, boundingBox.Height)

calculateBoundingBoxArea(boundingBox) == fmul(boundingBox.Width, boundingBox.Height)

\* line 93: tolerance: number = 0.2
DefaultTolerance == Thousandths[200]

\* lines 94-95, 98-99: Math.abs(center - 0.5) of one axis
CenterOffset(start, size) ==
    MathAbs(fsub(fadd(start, fdiv(size, Whole[2])), Thousandths[500]))

\* lines 93-101
isFaceCentered(boundingBox, tolerance) ==
    /\ fleq(CenterOffset(boundingBox.Left, boundingBox.Width), tolerance)
    /\ fleq(CenterOffset(boundingBox.Top, boundingBox.Height), tolerance)

\* A slip of line 110: the default tolerance is used for the bonus.
QualityTolerance_Default == DefaultTolerance

\* line 110: isFaceCentered(boundingBox, 0.15)
QualityTolerance == Thousandths[150]

\* A slip of line 121: the bonus goes to the faces of at most a tenth of the frame.
InSizeBand_Small(area) == fleq(area, Thousandths[100])

\* line 121: area >= 0.1 && area <= 0.4
InSizeBand(area) == fleq(Thousandths[100], area) /\ fleq(area, Thousandths[400])

\* lines 108-126
getFaceQualityScore(boundingBox) ==
    LET area == calculateBoundingBoxArea(boundingBox)
        isCentered == isFaceCentered(boundingBox, QualityTolerance)
        sized == MathMin(fmul(area, Whole[400]), Whole[70])
        placed == IF isCentered THEN fadd(sized, Whole[20]) ELSE sized
        banded == IF InSizeBand(area) THEN fadd(placed, Whole[10]) ELSE placed
    IN MathMin(MathRound(banded), Whole[100])

\* lines 275-292
compareFaceBoundingBoxes(b1, b2) ==
    LET left == MathMax(b1.Left, b2.Left)
        top == MathMax(b1.Top, b2.Top)
        right == MathMin(fadd(b1.Left, b1.Width), fadd(b2.Left, b2.Width))
        bottom == MathMin(fadd(b1.Top, b1.Height), fadd(b2.Top, b2.Height))
    IN IF fleq(right, left) \/ fleq(bottom, top) THEN Whole[0]
       ELSE LET intersection == fmul(fsub(right, left), fsub(bottom, top))
                area1 == fmul(b1.Width, b1.Height)
                area2 == fmul(b2.Width, b2.Height)
                union == fsub(fadd(area1, area2), intersection)
            IN fdiv(intersection, union)

----------------------------------------------------------------------------
(* SpecGeom: the geometry functions on bounding boxes.  A box is put         *)
(* together from a horizontal and a vertical extent <<start, size>>, both in *)
(* thousandths of the image side.                                            *)

\* Extents whose centre offset from 0.5 is 0, below 0.15, 0.15, between 0.15
\* and 0.2, 0.2 and above 0.2, with sizes whose products fall below, on, between
\* and above the area thresholds 0.1, 0.175, 0.4.
QualityExtents ==
    { <<400, 200>>, <<250, 200>>, <<260, 200>>, <<220, 200>>, <<200, 200>>,
      <<650, 100>>, <<100, 200>>, <<350, 300>>, <<0, 1000>>, <<0, 0>>,
      <<300, 400>>, <<100, 800>>, <<250, 500>>, <<150, 500>>, <<0, 700>>,
      <<325, 350>>, <<400, 125>>, <<375, 250>> }

BoxOf(h, v) == BoundingBox(h[1], v[1], h[2], v[2])

QualityPool == {BoxOf(h, v) : h \in QualityExtents, v \in QualityExtents}

\* The boxes a pair is made of: equal boxes, boxes that share an edge or a
\* corner, nested, overlapping and disjoint boxes, and boxes without width or
\* height.
OverlapBoxes ==
    { <<100, 100, 200, 200>>, <<300, 100, 200, 200>>, <<200, 200, 200, 200>>,
      <<300, 300, 100, 100>>, <<0, 0, 1000, 1000>>, <<0, 0, 0, 0>>,
      <<100, 100, 0, 200>>, <<150, 150, 200, 0>>, <<500, 500, 250, 250>>,
      <<250, 250, 500, 500>>, <<0, 0, 500, 500>>, <<500, 0, 500, 500>>,
      <<400, 400, 200, 200>>, <<700, 100, 300, 300>> }

OverlapPool == {BoundingBox(t[1], t[2], t[3], t[4]) : t \in OverlapBoxes}

InitGeom ==
    /\ box1 \in {Some(b) : b \in QualityPool \cup OverlapPool}
    /\ box2 = None
    /\ gcall = "ready"
    /\ qualityOut = None
    /\ centeredOut = None
    /\ compareOut = None
    /\ imageSize = None
    /\ pixelOut = None
    /\ MatchIdle
    /\ CompareIdle
    /\ RetryIdle
    /\ AnalyzeIdle

\* getFaceQualityScore(boundingBox)
CallGetFaceQualityScore ==
    /\ gcall = "ready"
    /\ qualityOut' = Some(getFaceQualityScore(box1[1]))
    /\ gcall' = "getFaceQualityScore"
    /\ UNCHANGED <<box1, box2, centeredOut, compareOut, imageSize, pixelOut,
                   matchVars, compareVars,
                   retryVars, analyzeVars>>

\* isFaceCentered(boundingBox)
CallIsFaceCentered ==
    /\ gcall = "ready"
    /\ centeredOut' = Some(isFaceCentered(box1[1], DefaultTolerance))
    /\ gcall' = "isFaceCentered"
    /\ UNCHANGED <<box1, box2, qualityOut, compareOut, imageSize, pixelOut,
                   matchVars, compareVars,
                   retryVars, analyzeVars>>

\* compareFaceBoundingBoxes(box1, box2), on the pairs of OverlapPool
CallCompareFaceBoundingBoxes ==
    /\ gcall = "ready"
    /\ box1[1] \in OverlapPool
    /\ \E b \in OverlapPool :
         /\ box2' = Some(b)
         /\ compareOut' = Some(compareFaceBoundingBoxes(box1[1], b))
    /\ gcall' = "compareFaceBoundingBoxes"
    /\ UNCHANGED <<box1, qualityOut, centeredOut, imageSize, pixelOut, matchVars,
                   compareVars, retryVars,
                   analyzeVars>>

\* Image sides handed to normalizedToPixelCoords: negative, zero, one pixel and
\* two common sizes
ImageSides == {-100, 0, 1, 480, 640}

\* normalizedToPixelCoords(boundingBox, imageWidth, imageHeight), on the boxes
\* of OverlapPool
CallNormalizedToPixelCoords ==
    /\ gcall = "ready"
    /\ box1[1] \in OverlapPool
    /\ \E w \in ImageSides, h \in ImageSides :
         /\ imageSize' = Some(<<w, h>>)
         /\ pixelOut' = Some(normalizedToPixelCoords(box1[1], Int2Num(w), Int2Num(h)))
    /\ gcall' = "normalizedToPixelCoords"
    /\ UNCHANGED <<box1, box2, qualityOut, centeredOut, compareOut, matchVars,
                   compareVars, retryVars, analyzeVars>>

NextGeom ==
    \/ CallGetFaceQualityScore
    \/ CallIsFaceCentered
    \/ CallNormalizedToPixelCoords
    \/ CallCompareFaceBoundingBoxes

SpecGeom == InitGeom /\ [][NextGeom]_vars

----------------------------------------------------------------------------
(* Claims on the geometry functions *)

QualityCalled == gcall = "getFaceQualityScore"
TheBox == box1[1]
TheScore == qualityOut[1]

IsFinite(a) == a.m # <<>> \/ a.e = 0
IsInteger(a) == IsFinite(a) /\ xsub(a, xfloor(a)).m = <<>>

InUnit(x) == fleq(Whole[0], x) /\ fleq(x, Whole[1])

FieldsInUnit(b) == InUnit(b.Left) /\ InUnit(b.Top) /\ InUnit(b.Width) /\ InUnit(b.Height)

\* C13: getFaceQualityScore returns an integer in [0,100] for every bounding
\* box whose four fields lie in [0,1].
C13_QualityIntegerInRange ==
    (QualityCalled /\ FieldsInUnit(TheBox)) =>
      /\ IsInteger(TheScore)
      /\ fleq(Whole[0], TheScore)
      /\ fleq(TheScore, Whole[100])

\* A centred box of area 0.03125: 12.5 + 20 is rounded up to 33.
C13_Witness ==
    /\ QualityCalled
    /\ TheBox = BoundingBox(400, 375, 125, 250)
    /\ FieldsInUnit(TheBox)
    /\ TheScore = Int2Num(33)

\* The score the claim's formula gives: min(round(min(area*400, 70) + bonus +
\* band), 100), bonus = 20 when both centre offsets are within tol, band = 10
\* when 0.1 <= area <= 0.4.
FormulaScore(b, tol) ==
    LET area == fmul(b.Width, b.Height)
        bonus == IF /\ fleq(CenterOffset(b.Left, b.Width), tol)
                    /\ fleq(CenterOffset(b.Top, b.Height), tol)
                 THEN Whole[20] ELSE Whole[0]
        band == IF fleq(Thousandths[100], area) /\ fleq(area, Thousandths[400])
                THEN Whole[10] ELSE Whole[0]
    IN MathMin(MathRound(fadd(fadd(MathMin(fmul(area, Whole[400]), Whole[70]), bonus),
                              band)),
               Whole[100])

\* The score without the centring bonus
UncentredScore(b) == FormulaScore(b, Dyadic(TRUE, <<1>>, 0))

\* The centre offset x is above 0.15 and at most 0.2
BetweenTolerances(x) == fless(Thousandths[150], x) /\ fleq(x, Thousandths[200])

OffsetX(b) == CenterOffset(b.Left, b.Width)
OffsetY(b) == CenterOffset(b.Top, b.Height)

\* C14 as claimed: getFaceQualityScore equals min(round(min(area*400, 70) + (20
\* if the centre is within 0.15 of 0.5 on both axes) + (10 if 0.1 <= area <=
\* 0.4)), 100), and a box whose centre offset on some axis is above 0.15 and at
\* most 0.2 gets no bonus although isFaceCentered with its default tolerance
\* returns true for it.
C14_QualityFormulaAsClaimed ==
    /\ QualityCalled =>
         /\ TheScore = FormulaScore(TheBox, Thousandths[150])
         /\ (BetweenTolerances(OffsetX(TheBox)) \/ BetweenTolerances(OffsetY(TheBox)))
              => TheScore = UncentredScore(TheBox)
    /\ gcall = "isFaceCentered" =>
         ((BetweenTolerances(OffsetX(TheBox)) \/ BetweenTolerances(OffsetY(TheBox)))
            => centeredOut[1])

\* C14, amended: the same formula; a box whose centre offset is above 0.15 on
\* some axis and at most 0.2 on both axes gets no bonus although isFaceCentered
\* with its default tolerance returns true for it.
C14_QualityFormula ==
    /\ QualityCalled =>
         /\ TheScore = FormulaScore(TheBox, Thousandths[150])
         /\ (BetweenTolerances(OffsetX(TheBox)) \/ BetweenTolerances(OffsetY(TheBox)))
              => TheScore = UncentredScore(TheBox)
    /\ gcall = "isFaceCentered" =>
         ((/\ BetweenTolerances(OffsetX(TheBox)) \/ BetweenTolerances(OffsetY(TheBox))
           /\ fleq(OffsetX(TheBox), Thousandths[200])
           /\ fleq(OffsetY(TheBox), Thousandths[200]))
            => centeredOut[1])

\* A box 0.18 off centre horizontally and centred vertically, of area 0.04:
\* its score is 16, without the 20 its centring by the default tolerance
\* would earn.
C14_Witness ==
    /\ QualityCalled
    /\ TheBox = BoundingBox(220, 400, 200, 200)
    /\ BetweenTolerances(OffsetX(TheBox))
    /\ isFaceCentered(TheBox, DefaultTolerance)
    /\ TheScore = Whole[16]
    /\ FormulaScore(TheBox, Thousandths[200]) = Whole[36]

\* The boxes a score is compared with, with what the claim reads of each
MonotoneExtents ==
    {<<400, 200>>, <<350, 300>>, <<250, 500>>, <<375, 250>>, <<325, 350>>, <<100, 200>>}

MonotonePool == {BoxOf(h, v) : h \in MonotoneExtents, v \in MonotoneExtents}

MonotoneTable ==
    [b \in MonotonePool |->
       [area |-> fmul(b.Width, b.Height),
        centred |-> isFaceCentered(b, Thousandths[150]),
        score |-> getFaceQualityScore(b)]]

\* C15: getFaceQualityScore is monotonically non-decreasing in area for area
\* <= 0.175: for two boxes with the same centredness (both or neither within
\* tolerance 0.15) and areas a1 <= a2 <= 0.175, score(box1) <= score(box2).
C15_QualityMonotone ==
    QualityCalled =>
      LET area == fmul(TheBox.Width, TheBox.Height)
          centred == isFaceCentered(TheBox, Thousandths[150])
      IN \A b \in MonotonePool :
           LET other == MonotoneTable[b] IN
           centred = other.centred =>
             /\ (fleq(area, other.area) /\ fleq(other.area, Thousandths[175]))
                  => fleq(TheScore, other.score)
             /\ (fleq(other.area, area) /\ fleq(area, Thousandths[175]))
                  => fleq(other.score, TheScore)

\* A centred box of area 0.04 scores 36, below the centred boxes of area 0.09
\* (56) and of area 0.1, the first to earn the size bonus (70).
C15_Witness ==
    /\ QualityCalled
    /\ TheBox = BoundingBox(400, 400, 200, 200)
    /\ TheScore = Whole[36]
    /\ MonotoneTable[BoundingBox(350, 350, 300, 300)].score = Whole[56]
    /\ MonotoneTable[BoundingBox(400, 250, 200, 500)].score = Whole[70]
    /\ MonotoneTable[BoundingBox(400, 250, 200, 500)].centred
    /\ fleq(MonotoneTable[BoundingBox(400, 250, 200, 500)].area, Thousandths[175])

CompareCalled == gcall = "compareFaceBoundingBoxes"
TheOther == box2[1]
TheOverlap == compareOut[1]

\* C16: compareFaceBoundingBoxes(box, box) equals 1 for every box with
\* width > 0 and height > 0.
C16_SelfOverlapIsOne ==
    (/\ CompareCalled
     /\ TheBox = TheOther
     /\ fless(Whole[0], TheBox.Width)
     /\ fless(Whole[0], TheBox.Height))
      => TheOverlap = Whole[1]

\* The two rectangles, taken as sets of points of the plane, share a region of
\* positive area (sums without rounding).
PositiveOverlap(b1, b2) ==
    /\ fless(MathMax(b1.Left, b2.Left),
             MathMin(xadd(b1.Left, b1.Width), xadd(b2.Left, b2.Width)))
    /\ fless(MathMax(b1.Top, b2.Top),
             MathMin(xadd(b1.Top, b1.Height), xadd(b2.Top, b2.Height)))

NonNegativeSize(b) == fleq(Whole[0], b.Width) /\ fleq(Whole[0], b.Height)

\* C17: compareFaceBoundingBoxes returns 0 exactly when the two rectangles have
\* no overlap of positive area (disjoint, touching only along an edge or
\* corner, or one of them has zero width or height), and a value in (0,1]
\* otherwise; it never divides by zero and never returns a negative value for
\* boxes with non-negative width and height.
C17_OverlapZeroOrUnitRange ==
    (CompareCalled /\ NonNegativeSize(TheBox) /\ NonNegativeSize(TheOther)) =>
      /\ IsFinite(TheOverlap)
      /\ ~TheOverlap.neg
      /\ TheOverlap = Whole[0] <=> ~PositiveOverlap(TheBox, TheOther)
      /\ PositiveOverlap(TheBox, TheOther) =>
           fless(Whole[0], TheOverlap) /\ fleq(TheOverlap, Whole[1])

----------------------------------------------------------------------------
(* analyzeFaceDetectionResults *)

\* interface FaceImage; Bytes and S3Object are never read by the function
FaceImage(b) == [BoundingBox |-> b]

\* xs.reduce((a, b) => a + b, 0), from position i on with accumulator acc
RECURSIVE ReduceSumFrom(_, _, _)
ReduceSumFrom(xs, i, acc) ==
    IF i > Len(xs) THEN acc ELSE ReduceSumFrom(xs, i + 1, fadd(acc, xs[i]))

ReduceSum(xs) == ReduceSumFrom(xs, 1, Whole[0])

\* A slip of lines 312-315: the early return forgets its message.
NoReferenceAnalysis_NoMessage(images) ==
    [hasReferenceImage |-> FALSE, auditImageCount |-> Len(images),
     averageQualityScore |-> Whole[0], consistencyScore |-> Whole[0],
     recommendations |-> <<>>]

\* lines 304-315: the analysis returned when referenceImage is null
NoReferenceAnalysis(images) ==
    [hasReferenceImage |-> FALSE, auditImageCount |-> Len(images),
     averageQualityScore |-> Whole[0], consistencyScore |-> Whole[0],
     recommendations |-> <<"No reference image available">>]

\* A slip of lines 318-321: the reference image's score is left out.
QualityScores_AuditsOnly(ref, images) ==
    [i \in 1..Len(images) |-> getFaceQualityScore(images[i].BoundingBox)]

\* lines 318-321: the reference image's score, then one score per audit image
QualityScores(ref, images) ==
    [i \in 1..Len(images) + 1 |->
       getFaceQualityScore((<<ref>> \o images)[i].BoundingBox)]

\* lines 327-329
Similarities(ref, images) ==
    [i \in 1..Len(images) |->
       compareFaceBoundingBoxes(ref.BoundingBox, images[i].BoundingBox)]

\* A slip of line 337: the number of audit images is not looked at.
IsInconsistent_AnyCount(consistencyScore, count) ==
    fless(consistencyScore, Thousandths[700])

\* line 337: analysis.consistencyScore < 0.7 && auditImages.length > 0
IsInconsistent(consistencyScore, count) ==
    fless(consistencyScore, Thousandths[700]) /\ count > 0

Pushed(condition, message) == IF condition THEN <<message>> ELSE <<>>

\* A slip of lines 350-352: the closing message is pushed whatever was found.
OrGood_Always(recommendations) ==
    recommendations \o <<"Face detection quality is good">>

\* lines 350-352
OrGood(recommendations) ==
    IF Len(recommendations) = 0 THEN <<"Face detection quality is good">>
    ELSE recommendations

\* lines 334-352
Recommendations(ref, count, averageQualityScore, consistencyScore) ==
    OrGood(Pushed(fless(averageQualityScore, Whole[70]),
                  "Consider retaking - face quality could be improved")
           \o Pushed(IsInconsistent(consistencyScore, count),
                     "Inconsistent face detection across images")
           \o Pushed(~isFaceCentered(ref.BoundingBox, DefaultTolerance),
                     "Face should be more centered in the frame")
           \o Pushed(fless(calculateBoundingBoxArea(ref.BoundingBox), Thousandths[100]),
                     "Face appears too small - move closer to camera")
           \o Pushed(fless(Thousandths[500], calculateBoundingBoxArea(ref.BoundingBox)),
                     "Face appears too large - move away from camera"))

\* lines 323 and 330: xs.reduce((a, b) => a + b, 0) / xs.length
Mean(xs) == fdiv(ReduceSum(xs), Int2Num(Len(xs)))

\* lines 304-310 and 334-354: the analysis of a reference image, given its two
\* scores.  auditImageCount, a length, is kept as an integer.
Analysis(ref, images, averageQualityScore, consistencyScore) ==
    [hasReferenceImage |-> TRUE, auditImageCount |-> Len(images),
     averageQualityScore |-> averageQualityScore,
     consistencyScore |-> consistencyScore,
     recommendations |->
       Recommendations(ref, Len(images), averageQualityScore, consistencyScore)]

\* lines 300-355
analyzeFaceDetectionResults(reference, images) ==
    IF reference = None THEN NoReferenceAnalysis(images)
    ELSE Analysis(reference[1], images,
                  Mean(QualityScores(reference[1], images)),
                  IF Len(images) > 0 THEN Mean(Similarities(reference[1], images))
                  ELSE Whole[0])

----------------
(* SpecAnalyze: analyzeFaceDetectionResults on a subject image or none and   *)
(* at most MaxAudits audit images                                            *)

MaxAudits == 2

\* Subjects: small and centred, well sized and centred, too large, small and
\* off centre, centred with the highest score, well sized and off centre, and
\* centred with an area of 0.09, just below 0.1 and 0.1.
SubjectBoxes ==
    { <<400, 400, 200, 200>>, <<300, 300, 400, 400>>, <<100, 100, 800, 800>>,
      <<0, 0, 300, 300>>, <<250, 250, 500, 500>>, <<0, 300, 400, 400>>,
      <<350, 350, 300, 300>>, <<342, 342, 316, 316>>, <<375, 300, 250, 400>> }

\* Audit boxes: one of the subjects, one shifted a little, one far away.
AuditBoxes ==
    { <<300, 300, 400, 400>>, <<320, 300, 400, 400>>, <<600, 600, 200, 200>> }

ImagePool(boxes) == {FaceImage(BoundingBox(t[1], t[2], t[3], t[4])) : t \in boxes}

InitAnalyze ==
    /\ referenceImage \in {None} \cup {Some(img) : img \in ImagePool(SubjectBoxes)}
    /\ auditImages \in SeqsUpTo(ImagePool(AuditBoxes), MaxAudits)
    /\ acall = "ready"
    /\ analysis = None
    /\ MatchIdle
    /\ CompareIdle
    /\ RetryIdle
    /\ GeomIdle

\* const analysis = analyzeFaceDetectionResults(referenceImage, auditImages)
CallAnalyzeFaceDetectionResults ==
    /\ acall = "ready"
    /\ analysis' = Some(analyzeFaceDetectionResults(referenceImage, auditImages))
    /\ acall' = "analyzed"
    /\ UNCHANGED <<referenceImage, auditImages, matchVars, compareVars, retryVars,
                   geomVars>>

NextAnalyze == CallAnalyzeFaceDetectionResults

SpecAnalyze == InitAnalyze /\ [][NextAnalyze]_vars

----------------------------------------------------------------------------
(* Claims on analyzeFaceDetectionResults *)

Analyzed == acall = "analyzed"
TheAnalysis == analysis[1]

\* C18: analyzeFaceDetectionResults with no subject (reference) image returns
\* recommendations equal to the single message 'No reference image available',
\* averageQualityScore 0 and consistencyScore 0, for every list of audit images
\* (auditImageCount still equals the list's length).
C18_NoSubject ==
    (Analyzed /\ referenceImage = None) =>
      /\ TheAnalysis.recommendations = <<"No reference image available">>
      /\ TheAnalysis.averageQualityScore = Whole[0]
      /\ TheAnalysis.consistencyScore = Whole[0]
      /\ TheAnalysis.auditImageCount = Len(auditImages)
      /\ ~TheAnalysis.hasReferenceImage

\* No subject and two audit images.
C18_Witness ==
    /\ Analyzed
    /\ referenceImage = None
    /\ Len(auditImages) = 2
    /\ TheAnalysis.auditImageCount = 2
    /\ TheAnalysis.recommendations = <<"No reference image available">>

TheSubject == referenceImage[1].BoundingBox
AuditBox(i) == auditImages[i].BoundingBox
Recommends(message) ==
    \E i \in 1..Len(TheAnalysis.recommendations) :
       TheAnalysis.recommendations[i] = message

\* A quality score as an integer of 0..100
ScoreOf(b) == CHOOSE n \in 0..100 : Whole[n] = getFaceQualityScore(b)

RECURSIVE AuditScoreTotal(_)
AuditScoreTotal(k) == IF k = 0 THEN 0 ELSE AuditScoreTotal(k - 1) + ScoreOf(AuditBox(k))

\* C19: with a subject image, averageQualityScore is the sum of the quality
\* scores of the subject box and of every audit box divided by the number of
\* audit boxes plus one; with no audit boxes it is the subject's own score.
C19_AverageQuality ==
    (Analyzed /\ referenceImage # None) =>
      /\ TheAnalysis.averageQualityScore
           = fdiv(Whole[ScoreOf(TheSubject) + AuditScoreTotal(Len(auditImages))],
                  Whole[Len(auditImages) + 1])
      /\ (Len(auditImages) = 0 =>
            TheAnalysis.averageQualityScore = getFaceQualityScore(TheSubject))

\* Subject of score 36 and two audit boxes of score 94: the average is 224/3.
C19_Witness ==
    /\ Analyzed
    /\ referenceImage = Some(FaceImage(BoundingBox(400, 400, 200, 200)))
    /\ auditImages = << FaceImage(BoundingBox(300, 300, 400, 400)),
                        FaceImage(BoundingBox(320, 300, 400, 400)) >>
    /\ TheAnalysis.averageQualityScore = fdiv(Whole[224], Whole[3])
    /\ TheAnalysis.averageQualityScore # Whole[36]

\* Sum of the first k similarities, added in list order
RECURSIVE SimilarityTotal(_)
SimilarityTotal(k) ==
    IF k = 0 THEN Whole[0]
    ELSE fadd(SimilarityTotal(k - 1), compareFaceBoundingBoxes(TheSubject, AuditBox(k)))

\* C20: with a subject image, consistencyScore is the mean of
\* compareFaceBoundingBoxes(subject, audit_i) over all audit boxes and is 0
\* when there are none; with no audit boxes the message 'Inconsistent face
\* detection across images' is not produced although consistencyScore is
\* below 0.7.
C20_Consistency ==
    (Analyzed /\ referenceImage # None) =>
      /\ Len(auditImages) > 0 =>
           TheAnalysis.consistencyScore
             = fdiv(SimilarityTotal(Len(auditImages)), Whole[Len(auditImages)])
      /\ Len(auditImages) = 1 =>
           TheAnalysis.consistencyScore
             = compareFaceBoundingBoxes(TheSubject, AuditBox(1))
      /\ Len(auditImages) = 0 =>
           /\ TheAnalysis.consistencyScore = Whole[0]
           /\ fless(TheAnalysis.consistencyScore, Thousandths[700])
           /\ ~Recommends("Inconsistent face detection across images")

\* A well placed subject alone: consistencyScore is 0 and the only message is
\* the one for good quality.
C20_Witness ==
    /\ Analyzed
    /\ referenceImage = Some(FaceImage(BoundingBox(300, 300, 400, 400)))
    /\ auditImages = <<>>
    /\ TheAnalysis.consistencyScore = Whole[0]
    /\ TheAnalysis.recommendations = <<"Face detection quality is good">>

\* The rules a to e of the recommendation list, on the scores of the analysis
\* and on the subject box
RuleHolds(k) ==
    CASE k = 1 -> fless(TheAnalysis.averageQualityScore, Whole[70])
      [] k = 2 -> Len(auditImages) > 0
                  /\ fless(TheAnalysis.consistencyScore, Thousandths[700])
      [] k = 3 -> ~isFaceCentered(TheSubject, Thousandths[200])
      [] k = 4 -> fless(fmul(TheSubject.Width, TheSubject.Height), Thousandths[100])
      [] k = 5 -> fless(Thousandths[500], fmul(TheSubject.Width, TheSubject.Height))

RuleMessage ==
    << "Consider retaking - face quality could be improved",
       "Inconsistent face detection across images",
       "Face should be more centered in the frame",
       "Face appears too small - move closer to camera",
       "Face appears too large - move away from camera" >>

GoodMessage == "Face detection quality is good"

\* The messages of the rules 1..k that hold, in rule order
RECURSIVE Fired(_)
Fired(k) ==
    IF k = 0 THEN <<>>
    ELSE Fired(k - 1) \o (IF RuleHolds(k) THEN <<RuleMessage[k]>> ELSE <<>>)

\* C21: with a subject image the recommendation list is non-empty and holds,
\* in the order a to e, exactly the messages of the rules whose condition
\* holds; 'Face detection quality is good' is present iff none of a to e
\* holds, and then it is the only message.
C21_RecommendationRules ==
    (Analyzed /\ referenceImage # None) =>
      /\ TheAnalysis.recommendations # <<>>
      /\ Fired(5) # <<>> => TheAnalysis.recommendations = Fired(5)
      /\ Recommends(GoodMessage) <=> (\A k \in 1..5 : ~RuleHolds(k))
      /\ Recommends(GoodMessage) => TheAnalysis.recommendations = <<GoodMessage>>

\* A small subject in a corner and one audit box far away: the rules a, b, c
\* and d fire, in this order.
C21_Witness ==
    /\ Analyzed
    /\ referenceImage = Some(FaceImage(BoundingBox(0, 0, 300, 300)))
    /\ auditImages = <<FaceImage(BoundingBox(600, 600, 200, 200))>>
    /\ TheAnalysis.recommendations
         = <<RuleMessage[1], RuleMessage[2], RuleMessage[3], RuleMessage[4]>>

\* C22: for a subject box with fields in [0,1] and no audit images, an area
\* below 0.1 gives both the 'Consider retaking' and the too-small message and
\* not the 'good' message; for the subject {0.4, 0.4, 0.2, 0.2}
\* averageQualityScore is 36.
C22_SmallSubject ==
    (Analyzed /\ referenceImage # None /\ auditImages = <<>> /\ FieldsInUnit(TheSubject)) =>
      /\ fless(fmul(TheSubject.Width, TheSubject.Height), Thousandths[100]) =>
           /\ Recommends("Consider retaking - face quality could be improved")
           /\ Recommends("Face appears too small - move closer to camera")
           /\ ~Recommends("Face detection quality is good")
      /\ TheSubject = BoundingBox(400, 400, 200, 200) =>
           TheAnalysis.averageQualityScore = Whole[36]

\* The subject {0.4, 0.4, 0.2, 0.2} alone: score 36 and the two messages.
C22_Witness ==
    /\ Analyzed
    /\ referenceImage = Some(FaceImage(BoundingBox(400, 400, 200, 200)))
    /\ auditImages = <<>>
    /\ TheAnalysis.averageQualityScore = Whole[36]
    /\ TheAnalysis.recommendations
         = << "Consider retaking - face quality could be improved",
              "Face appears too small - move closer to camera" >>

----------------------------------------------------------------------------
(* Claim on normalizedToPixelCoords *)

PixelsCalled == gcall = "normalizedToPixelCoords"
ThePixels == pixelOut[1]

\* C23: normalizedToPixelCoords fails fast on invalid input: when imageWidth
\* or imageHeight is zero or negative it signals an error instead of
\* returning pixel coordinates.
C23_PixelsFailFast ==
    (PixelsCalled /\ (imageSize[1][1] <= 0 \/ imageSize[1][2] <= 0)) => ThePixels.threw

----------------------------------------------------------------------------
(* Claims about error handling in the liveness component (SpecRetry) *)

\* handleError retries that wait on the timer or on their session creation
RetriesInProgress == hWaiting + fetches.handleError

\* C24: handleError never runs two automatic retries at once: an error event
\* that arrives while isHandlingError is set starts no session creation and
\* does not increment the retry counter, it sets the terminal message and
\* loading = false; at most one session creation begun by handleError is in
\* progress at any time.
C24_OneRetryAtATime ==
    [][/\ RetriesInProgress' <= 1
       /\ (errorsSeen' = errorsSeen + 1 /\ isHandlingError) =>
            /\ error' # None /\ error'[1] \in TerminalMessages
            /\ ~loading'
            /\ retryCount' = retryCount
            /\ hWaiting' = hWaiting
            /\ fetches' = fetches
            /\ isHandlingError']_vars

\* An error event has just been refused during the first retry, whose
\* session creation is still in flight.
C24_Witness ==
    /\ lastEvent = "errorTerminal"
    /\ isHandlingError
    /\ retryCount = 1
    /\ fetches.handleError = 1
    /\ hWaiting = 0
    /\ error # None /\ error[1] \in TerminalMessages

\* A fetchCreateLiveness call finishes in this step.
CreationFinishes ==
    \E caller \in {"mount", "handleError", "retryLiveness"} :
       fetches'[caller] = fetches[caller] - 1

\* C25 (as claimed): when fetchCreateLiveness finishes, loading is false and
\* either a new sessionId has been stored or the error message is set and the
\* stored sessionId is unchanged; and, the timer firing and the request
\* settling, every handleError invocation that began a retry eventually
\* resets isHandlingError to false.
C25_CreationSettles ==
    /\ [][CreationFinishes =>
            /\ ~loading'
            /\ \/ /\ lastEvent' = "fetchOk"
                  /\ sessionId' # 0 /\ sessionId' # sessionId
                  /\ error' = error
               \/ /\ lastEvent' = "fetchFailed"
                  /\ error' = Some(CreateFailedMessage)
                  /\ sessionId' = sessionId]_vars
    /\ (isHandlingError ~> ~isHandlingError)

\* The mount's session was created, an error event began the first retry and
\* the retry's session creation has failed: the flag is reset, loading is
\* false, the error is set and the mount's session is still the stored one.
C25_Witness ==
    /\ lastEvent = "fetchFailed"
    /\ resetsSeen = 0 /\ retryCount = 1
    /\ sessionsMade = 1 /\ sessionId = 1
    /\ fetches = NoFetches /\ hWaiting = 0
    /\ ~isHandlingError
    /\ ~loading
    /\ error = Some(CreateFailedMessage)

\* C26: an error message, once set, stays set until retryLiveness runs: no
\* other step clears it, so a session creation begun by handleError that
\* succeeds after the message was set leaves the error view on screen
\* although a fresh sessionId is stored and loading is false.
C26_ErrorStaysUntilRetry ==
    [][/\ (error # None /\ error' = None) => resetsSeen' = resetsSeen + 1
       /\ (/\ error # None
           /\ fetches'.handleError = fetches.handleError - 1
           /\ lastEvent' = "fetchOk") =>
            /\ error' = error
            /\ ViewOf(error', loading', livenessResults') = "error"
            /\ ~loading'
            /\ sessionId' # 0 /\ sessionId' # sessionId]_vars

\* During the first retry a second error event set the terminal message;
\* the retry's session has now been created and the error view is shown.
C26_Witness ==
    /\ lastEvent = "fetchOk"
    /\ resetsSeen = 0 /\ retryCount = 1
    /\ fetches = NoFetches /\ hWaiting = 0
    /\ sessionsMade = 2 /\ sessionId = 2
    /\ ~loading
    /\ error # None /\ error[1] \in TerminalMessages
    /\ View = "error"

\* C27: immediately after retryLiveness the retry counter is 0, error,
\* livenessResults and identificationReport are null, showIdentification is
\* false, loading is true and exactly one new session creation has been
\* started; no camera check is made and a handleError retry that is still in
\* progress is not waited for.
C27_RetryLivenessResets ==
    [][resetsSeen' = resetsSeen + 1 =>
         /\ retryCount' = 0
         /\ error' = None
         /\ livenessResults' = None
         /\ ~identificationReport'
         /\ ~showIdentification'
         /\ loading'
         /\ fetches' = [fetches EXCEPT !.retryLiveness = @ + 1]
         /\ UNCHANGED <<mountPc, hWaiting, isHandlingError, sessionId>>]_vars

\* Try Again was pressed while the session creation of a handleError retry
\* was in flight: both requests are now pending.
C27_Witness ==
    /\ lastEvent = "reset"
    /\ isHandlingError
    /\ fetches.handleError = 1
    /\ fetches.retryLiveness = 1
    /\ retryCount = 0
    /\ error = None
    /\ livenessResults = None
    /\ loading


----------------------------------------------------------------------------
(* Claims about the run of performFaceComparison and the displayed match *)

\* C28: isComparing is true during the whole of a started run and false once
\* it has ended, by completion or by a caught exception; a click without
\* reference image bytes or without reference images starts no run and leaves
\* isComparing and comparisonResults alone; the report callback is invoked at
\* most once in a run and only with the results already stored.
C28_IsComparingBracketsRun ==
    [][/\ (cpc' \in {"loading", "comparing"}) => isComparing'
       /\ (cpc' \in {"done", "unmounted"}) => ~isComparing'
       /\ (/\ cpc \in {"idle", "done"}
           /\ (~livenessResult.hasBytes \/ Len(referenceImages) = 0)) =>
            UNCHANGED <<isComparing, comparisonResults, cpc, inFlight, callLog,
                        refImageData, fileLog, reportCalls>>
       /\ reportCalls' <= 1
       /\ (reportCalls' > reportCalls) =>
            (cpc' = "done" /\ comparisonResults' = results')
       /\ (cpc = "unmounted") => UNCHANGED compareVars]_vars

\* A run that ended in the catch block: the report builder threw, the failure
\* was alerted, no report was handed over and isComparing is false again.
C28_Witness ==
    /\ cpc = "unmounted"
    /\ lastReport.threw
    /\ alerts = 1
    /\ reportCalls = 0
    /\ ~isComparing
    /\ Len(comparisonResults) >= 1

\* The report's best match: findBestMatch(results) at its default of 80.
ReportBest(rs) == findBestMatch(rs, 80).bestMatch

\* C29: for one list of results and a slider threshold t, the displayed match
\* findBestMatch(results, t) and the report's findBestMatch(results) agree at
\* t = 80; for t > 80 a displayed match is the report's best match; for
\* t < 80 a best match of the report is the displayed match; and the best
\* match in the report is the one at 80 whatever t is.
C29_DisplayedAndReportedMatch ==
    /\ mstep = "best" =>
         /\ minimumSimilarity = 80 => bestIdx = ReportBest(outcomes)
         /\ (minimumSimilarity > 80 /\ bestIdx # 0) => bestIdx = ReportBest(outcomes)
         /\ (minimumSimilarity < 80 /\ ReportBest(outcomes) # 0) =>
                bestIdx = ReportBest(outcomes)
    /\ mstep = "report" =>
         /\ ~reportOut.threw
         /\ reportOut.report[1].faceComparison.bestMatch =
                BestMatchSummary(outcomes, ReportBest(outcomes))

\* At t = 90 the second result is displayed; it is the report's best match
\* although the first result also qualifies for the report.
C29_Witness ==
    /\ mstep = "best"
    /\ minimumSimilarity = 90
    /\ Len(outcomes) = 2
    /\ Considered(outcomes[1]) /\ FirstSimilarity(outcomes[1]) = 80
    /\ Considered(outcomes[2]) /\ FirstSimilarity(outcomes[2]) = 90
    /\ bestIdx = 2
    /\ ReportBest(outcomes) = 2

\* The references among the first Len(log) of refs whose read succeeded.
RECURSIVE ReadOk(_, _)
ReadOk(refs, log) ==
    IF log = <<>> THEN <<>>
    ELSE (IF Head(log) THEN <<Head(refs)>> ELSE <<>>) \o ReadOk(Tail(refs), Tail(log))

\* C30: loadReferenceImages returns exactly the references whose file was
\* read, in input order; a failed read produces nothing and does not stop the
\* later reads; so the run's outcomes, and totalComparisons of its report, are
\* as many as the loaded references, at most the uploaded ones.
C30_FailedLoadsAreSkipped ==
    /\ Len(fileLog) <= Len(referenceImageFiles)
    /\ LET ok == ReadOk(referenceImageFiles, fileLog) IN
         /\ Len(refImageData) = Len(ok)
         /\ \A i \in 1..Len(ok) :
               /\ refImageData[i].id = ok[i].id
               /\ refImageData[i].name = ok[i].name
    /\ cpc = "loading" => idx = Len(fileLog) + 1
    /\ cpc \in {"comparing", "done", "unmounted"} =>
         Len(fileLog) = Len(referenceImageFiles)
    /\ cpc \in {"done", "unmounted"} =>
         /\ Len(comparisonResults) = Len(refImageData)
         /\ Len(comparisonResults) <= Len(referenceImageFiles)
         /\ ~lastReport.threw =>
               lastReport.report[1].faceComparison.totalComparisons
                   = Len(refImageData)

\* Two files were uploaded, the first could not be read: the run produced one
\* outcome, for the second person, and the report counts one comparison.
C30_Witness ==
    /\ cpc = "done"
    /\ fileLog = <<FALSE, TRUE>>
    /\ referenceImageFiles[1].id # referenceImageFiles[2].id
    /\ Len(comparisonResults) = 1
    /\ comparisonResults[1].personId = Some(referenceImageFiles[2].id)
    /\ ~lastReport.threw
    /\ lastReport.report[1].faceComparison.totalComparisons = 1

====
